---- MODULE Spec2Model ----
(***************************************************************************)
(* Verification model of the B.L.A.D.E. dictation engine:                  *)
(*   - the transcription backends (transcriber/base.py,                    *)
(*     transcriber/openai_backend.py),                                     *)
(*   - the job orchestration of MainWindow (ui/main_window.py),            *)
(*   - the hotkey manager (hotkey_manager.py).                             *)
(* Worker threads of the pool, the UI thread and the hotkey threads are    *)
(* interleaved at the granularity of their accesses to shared state.       *)
(***************************************************************************)
EXTENDS Integers, Sequences, FiniteSets, TLC

\* ------------------------------------------------------------------ bounds
\* Largest number of chunk files a split returns in the model.
MaxChunks == 2
\* Largest number of jobs submitted and not yet ended.
MaxJobs == 3
\* Largest number of jobs in flight in the specification of the window.
MaxPending == 2
\* Largest number of chunk files of the job whose progress display is followed.
MaxFallbackChunks == 3
\* Largest number of scheduled callbacks the main loop has yet to run.
MaxAfter == 2
\* ThreadPoolExecutor(max_workers=2)
PoolSize == 2

VARIABLES
    backendKind,      \* which class current_backend is an instance of
    available,        \* OpenAIBackend.is_available(): client and api_key are set
    is_transcribing,  \* TranscriptionBackend.is_transcribing
    should_cancel,    \* TranscriptionBackend.should_cancel
    is_recording,     \* AudioRecorder.is_recording
    jobs,             \* the jobs handed to the executor and not yet ended, in submission order
    delivered,        \* how the job that ended in the step just taken ended, if one did
    program_enabled,  \* HotkeyManager.program_enabled
    last_trigger_time,\* HotkeyManager._last_trigger_time, in milliseconds
    now,              \* time.time(), in milliseconds
    pressLog,         \* history: the last two calls of _should_trigger_record_toggle
    handled,          \* history: the last keyboard event and what the hook did with it
    probe,            \* one call of _matches_hotkey: its arguments and its result
    runs,             \* one chunk list transcribed along each of the chunk loops
    cancelled_at,     \* history: where a backend call stood when cancel_transcription() was called on the backend
    widgets,          \* the state of the buttons, the status label and the overlay
    after_queue,      \* the callbacks scheduled with root.after(0, ...) and not yet run
    mutation,         \* which handler mutated widgets in the step just taken, and on which thread
    recording_data,   \* AudioRecorder.has_recording_data()
    downloading,      \* WhisperModelDialog.downloading
    download_cancelled,     \* WhisperModelDialog.download_cancelled
    current_download_model, \* WhisperModelDialog.current_download_model
    download_threads, \* the download threads started so far, in the order they were started
    cache,            \* the models that have a file in the Whisper cache directory
    dialog_widgets,   \* the dialog window: whether it exists, its Close and Cancel buttons, its rows
    dialog_after,     \* the callbacks scheduled with dialog.after(0, ...) and not yet run
    shown,            \* the message box the step just taken showed, and for which model
    selected_model,   \* WhisperModelDialog.selected_model, the radio selection
    current_model,    \* WhisperModelDialog.current_model
    whisper_model,    \* the persisted 'whisper_model' setting
    DEFAULT_WHISPER_MODEL,  \* config.DEFAULT_WHISPER_MODEL
    backend           \* WhisperModelDialog.backend: the local backend, or None

backendVars == <<backendKind, available, is_transcribing, should_cancel>>
jobVars == <<backendKind, available, is_transcribing, should_cancel, is_recording, jobs, delivered>>
hotkeyVars == <<program_enabled, last_trigger_time, now, pressLog, handled>>
callVars == <<cancelled_at>>
uiVars == <<widgets, after_queue, mutation, recording_data>>
downloadVars == <<downloading, download_cancelled, current_download_model, download_threads,
                  cache, dialog_widgets, dialog_after>>
modelVars == <<selected_model, current_model, whisper_model, DEFAULT_WHISPER_MODEL, backend>>
dialogVars == <<downloadVars, shown, modelVars>>
vars == <<jobVars, hotkeyVars, probe, runs, callVars, uiVars, dialogVars>>

\* What the job orchestration leaves alone.
notJobVars == <<hotkeyVars, probe, runs, callVars, uiVars, dialogVars>>
\* What the hotkey manager, a probe of the matcher and a scripted run leave alone.
notHotkeyVars == <<jobVars, probe, runs, callVars, uiVars, dialogVars>>
notProbeVars == <<jobVars, hotkeyVars, runs, callVars, uiVars, dialogVars>>
notRunsVars == <<jobVars, hotkeyVars, probe, callVars, uiVars, dialogVars>>
\* What the window's handlers and callbacks leave alone.
notUiVars == <<hotkeyVars, probe, runs, callVars, dialogVars>>
\* What the Whisper model dialog leaves alone.
notDialogVars == <<jobVars, hotkeyVars, probe, runs, callVars, uiVars>>

\* ------------------------------------------------------------------ texts
\* A text is a sequence of characters; the character Space is whitespace and
\* every other character is the word spoken in the chunk file of that number.
Space == 0

\* The chunk files split_audio_file returns for a split into n chunks, in order.
ChunkFiles(n) == [c \in 1..n |-> c]

\* The raw responses the transcription API may give for an audio file: the
\* spoken word, with or without surrounding whitespace.
Responses(file) == { <<file>>, <<Space, file, Space>> }

RECURSIVE LStrip(_)
LStrip(s) == IF s # <<>> /\ Head(s) = Space THEN LStrip(Tail(s)) ELSE s

RECURSIVE RStrip(_)
RStrip(s) ==
    IF s # <<>> /\ s[Len(s)] = Space THEN RStrip(SubSeq(s, 1, Len(s) - 1)) ELSE s

\* str.strip()
Strip(s) == RStrip(LStrip(s))

\* audio_processor.combine_transcriptions: the texts in input order, joined by
\* a single separating space.
RECURSIVE combine_transcriptions(_)
combine_transcriptions(ts) ==
    IF ts = <<>> THEN <<>>
    ELSE IF Len(ts) = 1 THEN ts[1]
    ELSE ts[1] \o <<Space>> \o combine_transcriptions(Tail(ts))

\* A loop that puts each new chunk text in front of the earlier ones.
PrependTranscription(transcriptions, chunk_text) == <<chunk_text>> \o transcriptions

\* transcriptions.append(chunk_text)
AppendTranscription(transcriptions, chunk_text) == Append(transcriptions, chunk_text)

\* ------------------------------------------------------------------ jobs
BackendKinds == {"OpenAIBackend", "BaseDefault", "NoChunks"}

\* hasattr(self.current_backend, 'transcribe_chunks')
\* A test that finds transcribe_chunks only on a class that defines it itself.
HasOwnTranscribeChunks(kind) == kind = "OpenAIBackend"

HasTranscribeChunks(kind) == kind \in {"OpenAIBackend", "BaseDefault"}

\* How a split that yields no chunk list to transcribe ends.
SplitFailures == {"split_error", "no_chunks"}

\* The calls a worker function has made itself so far.
NoCalls == [split_audio_file |-> 0, transcribe |-> 0, transcribe_chunks |-> 0]

\* History of the cancels a large-file job has seen: none; only cancels that
\* did not raise should_cancel while a chunk was being processed; or the first
\* chunk k >= 1 during whose processing a cancel raised should_cancel.
NoCancel == 0
Requested == -1

NewJob(kind) ==
    [ kind      |-> kind,       \* "direct" or "large"
      pc        |-> "queued",   \* position of the worker running the job
      n         |-> 0,          \* len(chunk_files)
      i         |-> 0,          \* 1-based index of the chunk of the current iteration
      acc       |-> <<>>,       \* transcriptions
      text      |-> <<>>,       \* text returned by the backend call
      res       |-> "none",     \* how the backend call or the split ended
      cancel    |-> NoCancel,   \* history of the UI cancels invoked during the job
      calls     |-> NoCalls,    \* calls made by the worker function itself
      chunk_arg |-> <<>> ]      \* the list passed to transcribe_chunks

JobIds == 1..Len(jobs)

RunningPcs == {"split", "t_enter", "t_reset", "t_api", "t_fin",
               "c_enter", "c_reset", "loop", "api", "c_fin"}

Running(j) == jobs[j].pc \in RunningPcs

\* The executor starts queued jobs in submission order while a worker is free.
CanStart(j) ==
    /\ jobs[j].pc = "queued"
    /\ Cardinality({k \in JobIds : Running(k)}) < PoolSize
    /\ \A k \in 1..(j - 1) : jobs[k].pc # "queued"

\* The worker of job j is inside a call of current_backend.transcribe or
\* current_backend.transcribe_chunks.
InBackendCall(j) ==
    \/ jobs[j].pc \in {"t_enter", "t_reset", "t_api", "t_fin", "c_enter", "c_reset", "api", "c_fin"}
    \/ jobs[j].pc = "loop" /\ HasTranscribeChunks(backendKind)

\* The chunk whose transcription the worker of job j is busy with (0: none).
ProcessingChunk(j) ==
    IF jobs[j].kind = "large" /\ jobs[j].pc \in {"api", "t_enter", "t_reset", "t_api", "t_fin"}
    THEN jobs[j].i ELSE 0

\* The audio file the worker of job j is having transcribed: the recorded or
\* opened file of a direct job, the i-th chunk file of a large-file job.
FileOf(j) == IF jobs[j].kind = "direct" THEN 1 ELSE ChunkFiles(jobs[j].n)[jobs[j].i]

\* No job ended in the step just taken.
NoOutcome ==
    [ kind |-> "none", res |-> "none", text |-> <<>>, sink |-> "none", cleanups |-> 0,
      n |-> 0, cancel |-> NoCancel, calls |-> NoCalls, chunk_arg |-> <<>> ]

SetJob(j, r) == jobs' = [jobs EXCEPT ![j] = r] /\ delivered' = NoOutcome

\* ------------------------------------------------------------------ Init
\* TranscriptionBackend.__init__, AudioRecorder and the executor of a new
\* MainWindow; current_backend is of one of the kinds, its API client
\* initialised or not.
JobsInit ==
    /\ backendKind \in BackendKinds
    /\ available \in BOOLEAN
    /\ is_transcribing = FALSE
    /\ should_cancel = FALSE
    /\ is_recording = FALSE
    /\ jobs = <<>>
    /\ delivered = NoOutcome

\* The orchestration at rest, for the specifications that do not run it.
JobsIdle == JobsInit /\ backendKind = "OpenAIBackend" /\ available

\* ------------------------------------------------------------------ hotkeys
\* A string is a sequence of characters. The names of the modifier keys:
ctrl == <<"c", "t", "r", "l">>
alt == <<"a", "l", "t">>
shift == <<"s", "h", "i", "f", "t">>
win == <<"w", "i", "n">>
ModifierNames == {ctrl, alt, shift, win}

\* str.lower()
LowerChar(c) == IF c = "A" THEN "a" ELSE c
Lower(str) == [k \in 1..Len(str) |-> LowerChar(str[k])]

\* str.split('+'): the pieces between the '+' characters, in order; a string
\* without '+' is its own single piece.
RECURSIVE Split(_)
Split(str) ==
    IF \E k \in 1..Len(str) : str[k] = "+"
    THEN LET k == CHOOSE k \in 1..Len(str) :
                    str[k] = "+" /\ \A m \in 1..(k - 1) : str[m] # "+"
         IN <<SubSeq(str, 1, k - 1)>> \o Split(SubSeq(str, k + 1, Len(str)))
    ELSE <<str>>

\* '+'.join(tokens): how a hotkey string is written from its key names.
RECURSIVE Join(_)
Join(tokens) ==
    IF tokens = <<>> THEN <<>>
    ELSE IF Len(tokens) = 1 THEN tokens[1]
    ELSE tokens[1] \o <<"+">> \o Join(Tail(tokens))

\* A required modifier is not pressed: the loop over the modifiers of the
\* hotkey string; pressed holds the names keyboard.is_pressed is true of.
MissingModifier(modifiers, pressed) ==
    \E k \in 1..Len(modifiers) :
        modifiers[k] \in ModifierNames /\ modifiers[k] \notin pressed

\* A matcher that does not look for modifiers the hotkey string does not list.
NoExtraModifierTest(modifiers, pressed) == FALSE

\* A modifier the hotkey string does not list is pressed.
ExtraModifier(modifiers, pressed) ==
    \E m \in ModifierNames :
        (\A k \in 1..Len(modifiers) : modifiers[k] # m) /\ m \in pressed

\* HotkeyManager._matches_hotkey
MatchesHotkey(event, hotkey_string) ==
    IF hotkey_string = <<>> THEN FALSE
    ELSE LET parts == Split(Lower(hotkey_string))
             main_key == parts[Len(parts)]
             modifiers == SubSeq(parts, 1, Len(parts) - 1)
         IN IF Lower(event.name) # main_key THEN FALSE
            ELSE IF MissingModifier(modifiers, event.pressed) THEN FALSE
            ELSE IF ExtraModifier(modifiers, event.pressed) THEN FALSE
            ELSE TRUE

\* config.HOTKEY_DEBOUNCE_MS, in the model's unit of time.
HOTKEY_DEBOUNCE_MS == 2
\* time.time() when the hotkey manager is constructed: long after time 0.
StartTime == HOTKEY_DEBOUNCE_MS + 1
\* How long past StartTime the model's clock runs.
TimeSpan == 6

\* The hotkey strings of the settings: the record toggle, the cancel and the
\* enable/disable hotkeys.
hotkeys ==
    [ record_toggle  |-> <<"*">>,
      cancel         |-> Join(<<shift, <<"*">> >>),
      enable_disable |-> Join(<<ctrl, alt, <<"*">> >>) ]

\* The keyboard events the hook receives in the model.
HookEvents ==
    [ event_type : {"down", "up"},
      name       : {<<"*">>, <<"a">>},
      pressed    : {{}, {shift}, {ctrl, alt}, {ctrl}} ]

NoEvent == [event_type |-> "up", name |-> <<>>, pressed |-> {}]

\* HotkeyManager.__init__ followed by MainWindow._setup_hotkeys: enabled, no
\* trigger yet, the callbacks set.
HotkeyInit ==
    /\ program_enabled = TRUE
    /\ last_trigger_time = 0
    /\ now = StartTime
    /\ pressLog = <<>>
    /\ handled = [event |-> NoEvent, ret |-> TRUE, started |-> "none"]

\* The hotkey manager at rest, for the specifications that do not run it.
HotkeyIdle == HotkeyInit

\* A debounce that lets every trigger through.
NoDebounce(current_time, last) == TRUE

\* A debounce that accepts a trigger at exactly the debounce interval.
AcceptsAtThreshold(current_time, last) == current_time - last >= HOTKEY_DEBOUNCE_MS

\* HotkeyManager._should_trigger_record_toggle, its test: the time since the
\* last accepted trigger exceeds the debounce interval.
DebouncePassed(current_time, last) == current_time - last > HOTKEY_DEBOUNCE_MS

\* The history keeps the last two calls.
Logged(log, entry) == IF Len(log) < 2 THEN Append(log, entry) ELSE <<log[2], entry>>

\* Time passes.
Tick ==
    /\ now < StartTime + TimeSpan
    /\ now' = now + 1
    /\ UNCHANGED <<program_enabled, last_trigger_time, pressLog, handled>>
    /\ UNCHANGED notHotkeyVars

\* A hook that does not look at program_enabled before the record toggle and
\* the cancel hotkeys.
HandleWithoutEnabledTest(event) ==
    /\ IF event.event_type = "down" /\ MatchesHotkey(event, hotkeys.enable_disable)
       THEN /\ program_enabled' = ~program_enabled
            /\ handled' = [event |-> event, ret |-> FALSE, started |-> "none"]
            /\ UNCHANGED <<last_trigger_time, pressLog>>
       ELSE IF event.event_type = "down" /\ MatchesHotkey(event, hotkeys.record_toggle)
       THEN LET accepted == DebouncePassed(now, last_trigger_time)
                after == IF accepted THEN now ELSE last_trigger_time
            IN /\ last_trigger_time' = after
               /\ pressLog' = Logged(pressLog,
                                [ t |-> now, before |-> last_trigger_time, after |-> after,
                                  accepted |-> accepted, started |-> accepted ])
               /\ handled' = [ event |-> event, ret |-> FALSE,
                               started |-> IF accepted THEN "record_toggle" ELSE "none" ]
               /\ UNCHANGED program_enabled
       ELSE IF event.event_type = "down" /\ MatchesHotkey(event, hotkeys.cancel)
       THEN /\ handled' = [event |-> event, ret |-> FALSE, started |-> "cancel"]
            /\ UNCHANGED <<program_enabled, last_trigger_time, pressLog>>
       ELSE /\ handled' = [event |-> event, ret |-> TRUE, started |-> "none"]
            /\ UNCHANGED <<program_enabled, last_trigger_time, pressLog>>
    /\ UNCHANGED now
    /\ UNCHANGED notHotkeyVars

\* A hook that suppresses the record toggle key only when the trigger passed
\* the debounce.
HandlePassesDebouncedKey(event) ==
    /\ IF event.event_type = "down" /\ MatchesHotkey(event, hotkeys.enable_disable)
       THEN /\ program_enabled' = ~program_enabled
            /\ handled' = [event |-> event, ret |-> FALSE, started |-> "none"]
            /\ UNCHANGED <<last_trigger_time, pressLog>>
       ELSE IF event.event_type = "down" /\ program_enabled
                 /\ MatchesHotkey(event, hotkeys.record_toggle)
       THEN LET accepted == DebouncePassed(now, last_trigger_time)
                after == IF accepted THEN now ELSE last_trigger_time
            IN /\ last_trigger_time' = after
               /\ pressLog' = Logged(pressLog,
                                [ t |-> now, before |-> last_trigger_time, after |-> after,
                                  accepted |-> accepted, started |-> accepted ])
               /\ handled' = [ event |-> event, ret |-> ~accepted,
                               started |-> IF accepted THEN "record_toggle" ELSE "none" ]
               /\ UNCHANGED program_enabled
       ELSE IF event.event_type = "down" /\ program_enabled
                 /\ MatchesHotkey(event, hotkeys.cancel)
       THEN /\ handled' = [event |-> event, ret |-> FALSE, started |-> "cancel"]
            /\ UNCHANGED <<program_enabled, last_trigger_time, pressLog>>
       ELSE /\ handled' = [event |-> event, ret |-> TRUE, started |-> "none"]
            /\ UNCHANGED <<program_enabled, last_trigger_time, pressLog>>
    /\ UNCHANGED now
    /\ UNCHANGED notHotkeyVars

\* HotkeyManager._handle_keyboard_event, with _toggle_program_enabled and
\* _should_trigger_record_toggle: what the hook does with one event and the
\* value it returns (False suppresses the key).
HandleKeyboardEvent(event) ==
    /\ IF event.event_type = "down" /\ MatchesHotkey(event, hotkeys.enable_disable)
       THEN /\ program_enabled' = ~program_enabled
            /\ handled' = [event |-> event, ret |-> FALSE, started |-> "none"]
            /\ UNCHANGED <<last_trigger_time, pressLog>>
       ELSE IF event.event_type = "down" /\ program_enabled
                 /\ MatchesHotkey(event, hotkeys.record_toggle)
       THEN LET accepted == DebouncePassed(now, last_trigger_time)
                after == IF accepted THEN now ELSE last_trigger_time
            IN /\ last_trigger_time' = after
               /\ pressLog' = Logged(pressLog,
                                [ t |-> now, before |-> last_trigger_time, after |-> after,
                                  accepted |-> accepted, started |-> accepted ])
               /\ handled' = [ event |-> event, ret |-> FALSE,
                               started |-> IF accepted THEN "record_toggle" ELSE "none" ]
               /\ UNCHANGED program_enabled
       ELSE IF event.event_type = "down" /\ program_enabled
                 /\ MatchesHotkey(event, hotkeys.cancel)
       THEN /\ handled' = [event |-> event, ret |-> FALSE, started |-> "cancel"]
            /\ UNCHANGED <<program_enabled, last_trigger_time, pressLog>>
       ELSE /\ handled' = [event |-> event, ret |-> TRUE, started |-> "none"]
            /\ UNCHANGED <<program_enabled, last_trigger_time, pressLog>>
    /\ UNCHANGED now
    /\ UNCHANGED notHotkeyVars

KeyboardEvent == \E event \in HookEvents : HandleKeyboardEvent(event)

\* ------------------------------------------------------------------ one match
\* The most modifier tokens in front of the main key of a probed hotkey string.
MaxMods == 4

\* The tokens a probed hotkey string is written from: up to MaxMods tokens,
\* each a modifier name or an ordinary key, then the main key; or no token at
\* all, the empty string.
PrefixTokens == ModifierNames \cup {<<"a">>}
MainKeys == {<<"a">>, <<"A">>, <<"*">>}
ProbeTokens ==
    {<<>>} \cup
    { mods \o <<key>> :
        mods \in UNION {[1..k -> PrefixTokens] : k \in 0..MaxMods}, key \in MainKeys }

\* The key-down events a probe is made with: a key name and the modifiers held.
ProbeEvents == [event_type : {"down"}, name : MainKeys, pressed : SUBSET ModifierNames]

NoProbe ==
    [tokens |-> <<>>, hotkey_string |-> <<>>, event |-> NoEvent,
     called |-> FALSE, result |-> FALSE]

\* _matches_hotkey is applied to the probe's event and hotkey string.
Match ==
    /\ ~probe.called
    /\ probe' = [probe EXCEPT !.called = TRUE,
                              !.result = MatchesHotkey(probe.event, probe.hotkey_string)]
    /\ UNCHANGED notProbeVars

\* ------------------------------------------------------------------ one call, three paths
\* A script fixes what a chunked transcription meets: the number of chunk
\* files, the chunk whose API call raises (0: none), the chunks whose
\* response comes with surrounding white space, and when the user cancels: never, before the processing of chunk k begins
\* or while the API call of chunk k is in flight.
CancelPoints(n) == {[at |-> "never", k |-> 0]} \cup [at : {"before", "during"}, k : 1..n]
Scripts ==
    UNION { [ n : {n}, fail : 0..n,
              padded : SUBSET (1..n), cancel : CancelPoints(n) ] : n \in 1..MaxChunks }

ScriptResponse(script, c) == IF c \in script.padded THEN <<Space, c, Space>> ELSE <<c>>
CancelledBefore(script, c) == script.cancel.at = "before" /\ script.cancel.k = c
CancelledDuring(script, c) == script.cancel.at = "during" /\ script.cancel.k = c

Raised(res) == [res |-> res, text |-> <<>>, flag |-> FALSE]

\* OpenAIBackend.transcribe as one call: outcome, text and the cancellation
\* flag it leaves behind.
Transcribe(script, c) ==
    IF ~available THEN Raised("error")
    ELSE IF script.fail = c THEN Raised("error")
    ELSE IF CancelledDuring(script, c) THEN [Raised("cancelled") EXCEPT !.flag = TRUE]
    ELSE [res |-> "text", text |-> Strip(ScriptResponse(script, c)), flag |-> FALSE]

\* The per-chunk fallback loop of MainWindow._transcribe_large_audio.
RECURSIVE FallbackLoop(_, _, _)
FallbackLoop(script, i, transcriptions) ==
    IF i > script.n
    THEN [res |-> "text", text |-> combine_transcriptions(transcriptions)]
    ELSE LET chunk == Transcribe(script, i)
         IN IF chunk.res # "text" THEN [res |-> chunk.res, text |-> <<>>]
            ELSE FallbackLoop(script, i + 1, AppendTranscription(transcriptions, chunk.text))

\* The loop of OpenAIBackend.transcribe_chunks; flag is should_cancel when
\* iteration i is reached.
RECURSIVE NativeLoop(_, _, _, _)
NativeLoop(script, i, flag, transcriptions) ==
    IF i > script.n
    THEN [res |-> "text", text |-> combine_transcriptions(transcriptions)]
    ELSE IF flag \/ CancelledBefore(script, i) THEN [res |-> "cancelled", text |-> <<>>]
    ELSE IF script.fail = i THEN [res |-> "error", text |-> <<>>]
    ELSE NativeLoop(script, i + 1, CancelledDuring(script, i),
                    AppendTranscription(transcriptions, Strip(ScriptResponse(script, i))))

\* OpenAIBackend.transcribe_chunks
NativeChunks(script) ==
    IF ~available THEN [res |-> "error", text |-> <<>>]
    ELSE NativeLoop(script, 1, FALSE, <<>>)

\* TranscriptionBackend.transcribe_chunks, the inherited default.
RECURSIVE BaseLoop(_, _, _, _)
BaseLoop(script, i, flag, transcriptions) ==
    IF i > script.n
    THEN [res |-> "text", text |-> combine_transcriptions(transcriptions)]
    ELSE IF flag \/ CancelledBefore(script, i) THEN [res |-> "cancelled", text |-> <<>>]
    ELSE LET chunk == Transcribe(script, i)
         IN IF chunk.res # "text" THEN [res |-> chunk.res, text |-> <<>>]
            ELSE BaseLoop(script, i + 1, chunk.flag,
                          AppendTranscription(transcriptions, chunk.text))

NotRun == [done |-> FALSE, res |-> "none", text |-> <<>>]
Ran(outcome) == [done |-> TRUE, res |-> outcome.res, text |-> outcome.text]

NoRuns ==
    [ script   |-> [ n |-> 0, fail |-> 0, padded |-> {},
                     cancel |-> [at |-> "never", k |-> 0] ],
      fallback |-> NotRun, native |-> NotRun, base |-> NotRun ]

\* The script is run on the fallback path.
RunFallback ==
    /\ ~runs.fallback.done
    /\ runs' = [runs EXCEPT !.fallback = Ran(FallbackLoop(runs.script, 1, <<>>))]
    /\ UNCHANGED notRunsVars

\* The script is run through OpenAIBackend.transcribe_chunks.
RunNative ==
    /\ ~runs.native.done
    /\ runs' = [runs EXCEPT !.native = Ran(NativeChunks(runs.script))]
    /\ UNCHANGED notRunsVars

\* The script is run through the inherited transcribe_chunks.
RunBase ==
    /\ ~runs.base.done
    /\ runs' = [runs EXCEPT !.base = Ran(BaseLoop(runs.script, 1, FALSE, <<>>))]
    /\ UNCHANGED notRunsVars

\* ------------------------------------------------------------------ widgets
\* The status messages the handlers and workers show, as their words.
Statuses ==
    { <<"Recording">>, <<"Transcribing">>, <<"Processing", "audio", "file">>,
      <<"Processing", "large", "file">>, <<"Processing", "large", "audio", "file">>,
      <<"Transcribing", "chunks">>, <<"Combining", "transcriptions">>,
      <<"Ready">>, <<"Ready", "Pasted">> }

\* "word" in status
HasWord(status, word) == \E k \in 1..Len(status) : status[k] = word

\* UIStatusController.update_status: the label takes the status, and the
\* overlay the state the first matching word gives; any other status, or
\* show_overlay False, hides the overlay.
update_status(w, status, show_overlay) ==
    [w EXCEPT !.status_label = status,
              !.overlay = IF ~show_overlay THEN "hidden"
                          ELSE IF HasWord(status, "Recording") THEN "recording"
                          ELSE IF HasWord(status, "Processing") THEN "processing"
                          ELSE IF HasWord(status, "Transcribing") THEN "transcribing"
                          ELSE "hidden"]

\* UIStatusController.clear_status
clear_status(w) == [w EXCEPT !.overlay = "hidden"]

\* WaveformOverlay.show_canceling
show_canceling(w) == [w EXCEPT !.overlay = "canceling"]

\* MainWindow._on_transcription_complete, as far as the widgets go.
OnTranscriptionComplete(w) ==
    [update_status(clear_status(w), <<"Ready", "Pasted">>, FALSE) EXCEPT
        !.cancel_button = "disabled", !.start_button = "normal",
        !.open_file_button = "normal"]

\* MainWindow._on_transcription_error, as far as the widgets go.
OnTranscriptionError(w) ==
    [update_status(clear_status(w), <<"Ready">>, FALSE) EXCEPT
        !.cancel_button = "disabled", !.start_button = "normal",
        !.open_file_button = "normal"]

\* The widgets as MainWindow._setup_gui builds them.
WidgetsInit ==
    [ start_button     |-> "normal",
      stop_button      |-> "disabled",
      open_file_button |-> "normal",
      cancel_button    |-> "disabled",
      status_label     |-> <<"Ready">>,
      overlay          |-> "hidden" ]

\* No widget was touched in the step just taken.
NoMutation == [thread |-> "none", handler |-> "none"]

UiInit ==
    /\ widgets = WidgetsInit
    /\ after_queue = <<>>
    /\ mutation = NoMutation
    /\ recording_data = FALSE

\* ------------------------------------------------------------------ the Whisper model dialog: data
\* The rows of the dialog; the source lists five models, two of them stand for
\* "the model being downloaded" and "another model".
MODELS == {"tiny.en", "base.en"}
NoModel == "None"

\* _is_model_downloaded: some .pt file of the model is in the cache directory.
IsModelDownloaded(model_name, files) == model_name \in files

\* _create_widgets: a hidden progress section with an enabled Cancel button, an
\* enabled Close button, and per row a Download button unless the model is
\* downloaded (the row then has a Delete button).
CreateWidgets(generation, files) ==
    [exists |-> TRUE,
     generation |-> generation,
     close_button |-> "normal",
     progress_section |-> "hidden",
     cancel_download_btn |-> "normal",
     download_btn |-> [m \in MODELS |->
                          IF IsModelDownloaded(m, files) THEN "absent" ELSE "Download"]]

NoDialog ==
    [exists |-> FALSE, generation |-> 0, close_button |-> "normal",
     progress_section |-> "hidden", cancel_download_btn |-> "normal",
     download_btn |-> [m \in MODELS |-> "absent"]]

\* No message box was shown in the step just taken.
NoBox == [box |-> "none", model |-> NoModel]

\* WhisperModelDialog.__init__: no download in progress.
DownloadInit ==
    /\ downloading = FALSE
    /\ download_cancelled = FALSE
    /\ current_download_model = NoModel
    /\ download_threads = <<>>
    /\ dialog_after = <<>>
    /\ shown = NoBox

\* The dialog was never opened.
DialogIdle ==
    /\ DownloadInit
    /\ cache = {}
    /\ dialog_widgets = NoDialog
    /\ selected_model = NoModel /\ current_model = NoModel
    /\ whisper_model = NoModel /\ DEFAULT_WHISPER_MODEL = NoModel
    /\ backend = "None"

\* ------------------------------------------------------------------ initial states
\* No cancel_transcription() call on the backend has been recorded.
NotCancelled == [pc |-> "none", i |-> 0]
CallIdle == cancelled_at = NotCancelled

Init == JobsInit /\ HotkeyIdle /\ probe = NoProbe /\ runs = NoRuns /\ CallIdle /\ UiInit /\ DialogIdle

\* ------------------------------------------------------------------ UI thread
\* executor.submit(...): the job joins the executor's queue.
Submit(kind) ==
    /\ Len(jobs) < MaxJobs
    /\ jobs' = Append(jobs, NewJob(kind))
    /\ delivered' = NoOutcome

\* MainWindow.start_recording, from the start button or from toggle_recording
\* when the recorder is not recording.
start_recording ==
    /\ ~is_recording
    /\ is_recording' = TRUE
    /\ delivered' = NoOutcome
    /\ UNCHANGED <<backendVars, jobs>>
    /\ UNCHANGED notJobVars

\* MainWindow.stop_recording, from the stop button or from toggle_recording
\* when the recorder is recording. The recording is unusable (no data, save
\* failure, missing or too small file, size check failure) or is handed to a
\* direct or a large-file job.
stop_recording ==
    /\ is_recording
    /\ is_recording' = FALSE
    /\ \/ UNCHANGED jobs /\ delivered' = NoOutcome
       \/ \E kind \in {"direct", "large"} : Submit(kind)
    /\ UNCHANGED backendVars
    /\ UNCHANGED notJobVars

\* MainWindow.open_audio_file, from the File menu or the open-file button,
\* with a file the dialog returned and that passed the existence and size tests.
open_audio_file ==
    /\ \E kind \in {"direct", "large"} : Submit(kind)
    /\ UNCHANGED <<backendVars, is_recording>>
    /\ UNCHANGED notJobVars

\* History of a cancel invoked on the UI while the recorder is not recording:
\* every large-file job in flight has had its cancellation requested, and if
\* the backend's flag is raised, the chunk being processed is remembered.
NoteCancel(raised) ==
    [ j \in JobIds |->
        IF jobs[j].kind # "large" THEN jobs[j]
        ELSE [ jobs[j] EXCEPT
                 !.cancel = IF @ >= 1 THEN @
                            ELSE IF raised /\ ProcessingChunk(j) >= 1 THEN ProcessingChunk(j)
                            ELSE Requested ] ]

\* MainWindow.cancel_transcription, from the cancel button or the cancel hotkey.
cancel_transcription ==
    /\ UNCHANGED notJobVars
    /\ delivered' = NoOutcome
    /\ IF is_recording
       THEN /\ is_recording' = FALSE
            /\ UNCHANGED <<backendVars, jobs>>
       ELSE IF is_transcribing
       THEN /\ should_cancel' = TRUE
            /\ jobs' = NoteCancel(TRUE)
            /\ UNCHANGED <<backendKind, available, is_transcribing, is_recording>>
       ELSE /\ jobs' = NoteCancel(FALSE)
            /\ UNCHANGED <<backendVars, is_recording>>

\* ------------------------------------------------------------------ workers
\* A worker that cleans up after its last statement instead of in a finally
\* block: an exception skips the call.
CleanupOnSuccessOnly(kind, res) == IF kind = "large" /\ res = "text" THEN 1 ELSE 0

\* The number of cleanup_temp_files calls the worker makes as it ends: the
\* finally block of the large-file workers; the direct workers have none.
CleanupCalls(kind, res) == IF kind = "large" THEN 1 ELSE 0

\* A worker whose split is made outside the try block: its failures reach no
\* callback.
SinkOfBackendCallOnly(res) ==
    IF res = "text" THEN "complete"
    ELSE IF res \in {"split_error", "no_chunks"} THEN "none" ELSE "error"

\* The callback the worker schedules with root.after(0, ...): the text goes to
\* _on_transcription_complete, every exception to _on_transcription_error.
SinkOf(res) == IF res = "text" THEN "complete" ELSE "error"

\* A worker end that schedules the terminal callback and leaves the job among
\* the jobs in flight.
DeliverLeavesJob(j, res, text) ==
    /\ delivered' = [ kind     |-> jobs[j].kind,
                      res      |-> res,
                      text     |-> text,
                      sink     |-> SinkOf(res),
                      cleanups |-> CleanupCalls(jobs[j].kind, res),
                      n        |-> jobs[j].n,
                      cancel   |-> jobs[j].cancel,
                      calls    |-> jobs[j].calls,
                      chunk_arg |-> jobs[j].chunk_arg ]
    /\ UNCHANGED jobs

\* The end of the worker function of job j, whose split or backend call ended
\* as res: the terminal callback is scheduled with root.after(0, ...), the
\* finally block runs and the job is over.
Deliver(j, res, text) ==
    /\ delivered' = [ kind     |-> jobs[j].kind,
                      res      |-> res,
                      text     |-> text,
                      sink     |-> SinkOf(res),
                      cleanups |-> CleanupCalls(jobs[j].kind, res),
                      n        |-> jobs[j].n,
                      cancel   |-> jobs[j].cancel,
                      calls    |-> jobs[j].calls,
                      chunk_arg |-> jobs[j].chunk_arg ]
    /\ jobs' = [k \in 1..(Len(jobs) - 1) |-> IF k < j THEN jobs[k] ELSE jobs[k + 1]]

\* MainWindow._transcribe_audio / _transcribe_audio_from_file start on a worker.
StartDirect(j) ==
    /\ j \in JobIds
    /\ CanStart(j)
    /\ jobs[j].kind = "direct"
    /\ SetJob(j, [jobs[j] EXCEPT !.pc = "t_enter", !.calls.transcribe = @ + 1])
    /\ UNCHANGED <<backendVars, is_recording>>
    /\ UNCHANGED notJobVars

\* MainWindow._transcribe_large_audio / _transcribe_large_audio_from_file start
\* on a worker and call audio_processor.split_audio_file.
StartLarge(j) ==
    /\ j \in JobIds
    /\ CanStart(j)
    /\ jobs[j].kind = "large"
    /\ SetJob(j, [jobs[j] EXCEPT !.pc = "split", !.calls.split_audio_file = @ + 1])
    /\ UNCHANGED <<backendVars, is_recording>>
    /\ UNCHANGED notJobVars

\* A worker that goes from the split straight into its own per-chunk loop,
\* without a hasattr test.
SplitReturnsIntoFallback(j) ==
    /\ j \in JobIds
    /\ jobs[j].pc = "split"
    /\ \/ Deliver(j, "split_error", <<>>)
       \/ Deliver(j, "no_chunks", <<>>)
       \/ \E n \in 1..MaxChunks :
            SetJob(j, [jobs[j] EXCEPT !.n = n, !.i = 1, !.pc = "loop"])
    /\ UNCHANGED <<backendVars, is_recording>>
    /\ UNCHANGED notJobVars

\* split_audio_file raises, returns no chunk (the worker raises "Failed to
\* split audio file into chunks") or returns n chunk files; then the worker
\* takes the transcribe_chunks branch or the per-chunk fallback.
SplitReturns(j) ==
    /\ j \in JobIds
    /\ jobs[j].pc = "split"
    /\ \/ Deliver(j, "split_error", <<>>)
       \/ Deliver(j, "no_chunks", <<>>)
       \/ \E n \in 1..MaxChunks :
            SetJob(j, [jobs[j] EXCEPT
                         !.n = n, !.i = 1,
                         !.calls.transcribe_chunks =
                            IF HasTranscribeChunks(backendKind) THEN @ + 1 ELSE @,
                         !.chunk_arg =
                            IF HasTranscribeChunks(backendKind) THEN ChunkFiles(n) ELSE @,
                         !.pc = IF backendKind = "OpenAIBackend" THEN "c_enter" ELSE "loop"])
    /\ UNCHANGED <<backendVars, is_recording>>
    /\ UNCHANGED notJobVars

\* An entry of transcribe that makes no availability test.
EnterWithoutAvailabilityTest(j) ==
    /\ j \in JobIds
    /\ jobs[j].pc = "t_enter"
    /\ is_transcribing' = TRUE
    /\ SetJob(j, [jobs[j] EXCEPT !.pc = "t_reset"])
    /\ UNCHANGED <<backendKind, available, should_cancel, is_recording>>
    /\ UNCHANGED notJobVars

\* OpenAIBackend.transcribe, entry: the availability test, then
\* self.is_transcribing = True.
TranscribeEnter(j) ==
    /\ j \in JobIds
    /\ jobs[j].pc = "t_enter"
    /\ IF available
       THEN /\ is_transcribing' = TRUE
            /\ SetJob(j, [jobs[j] EXCEPT !.pc = "t_reset"])
       ELSE /\ Deliver(j, "unavailable", <<>>)
            /\ UNCHANGED is_transcribing
    /\ UNCHANGED <<backendKind, available, should_cancel, is_recording>>
    /\ UNCHANGED notJobVars

\* OpenAIBackend.transcribe: self.reset_cancel_flag(), then the API call starts.
TranscribeReset(j) ==
    /\ j \in JobIds
    /\ jobs[j].pc = "t_reset"
    /\ should_cancel' = FALSE
    /\ SetJob(j, [jobs[j] EXCEPT !.pc = "t_api"])
    /\ UNCHANGED <<backendKind, available, is_transcribing, is_recording>>
    /\ UNCHANGED notJobVars

\* OpenAIBackend.transcribe: the API call raises, or returns a response; then
\* the cancellation test, then response.strip().
TranscribeApi(j) ==
    /\ j \in JobIds
    /\ jobs[j].pc = "t_api"
    /\ \/ SetJob(j, [jobs[j] EXCEPT !.res = "api_error", !.pc = "t_fin"])
       \/ \E response \in Responses(FileOf(j)) :
            IF should_cancel
            THEN SetJob(j, [jobs[j] EXCEPT !.res = "cancelled", !.pc = "t_fin"])
            ELSE SetJob(j, [jobs[j] EXCEPT !.res = "text", !.text = Strip(response),
                                           !.pc = "t_fin"])
    /\ UNCHANGED <<backendVars, is_recording>>
    /\ UNCHANGED notJobVars

\* OpenAIBackend.transcribe: finally self.is_transcribing = False; the call
\* returns its text to the loop that transcribes chunk i, which appends it;
\* or it returns to a direct job's worker or raises, and the worker ends.
TranscribeFinally(j) ==
    /\ j \in JobIds
    /\ jobs[j].pc = "t_fin"
    /\ is_transcribing' = FALSE
    /\ IF jobs[j].kind = "large" /\ jobs[j].res = "text"
       THEN SetJob(j, [jobs[j] EXCEPT
                         !.acc = AppendTranscription(@, jobs[j].text),
                         !.text = <<>>, !.res = "none", !.i = @ + 1, !.pc = "loop"])
       ELSE Deliver(j, jobs[j].res, jobs[j].text)
    /\ UNCHANGED <<backendKind, available, should_cancel, is_recording>>
    /\ UNCHANGED notJobVars

\* OpenAIBackend.transcribe_chunks, entry: the availability test, then
\* self.is_transcribing = True.
ChunksEnter(j) ==
    /\ j \in JobIds
    /\ jobs[j].pc = "c_enter"
    /\ IF available
       THEN /\ is_transcribing' = TRUE
            /\ SetJob(j, [jobs[j] EXCEPT !.pc = "c_reset"])
       ELSE /\ Deliver(j, "unavailable", <<>>)
            /\ UNCHANGED is_transcribing
    /\ UNCHANGED <<backendKind, available, should_cancel, is_recording>>
    /\ UNCHANGED notJobVars

\* OpenAIBackend.transcribe_chunks: self.reset_cancel_flag().
ChunksReset(j) ==
    /\ j \in JobIds
    /\ jobs[j].pc = "c_reset"
    /\ should_cancel' = FALSE
    /\ SetJob(j, [jobs[j] EXCEPT !.pc = "loop"])
    /\ UNCHANGED <<backendKind, available, is_transcribing, is_recording>>
    /\ UNCHANGED notJobVars

\* The cancellation test at the start of a chunk iteration: made by
\* OpenAIBackend.transcribe_chunks and TranscriptionBackend.transcribe_chunks,
\* not made by the worker's per-chunk fallback loop.
ChecksCancel(kind) == kind \in {"OpenAIBackend", "BaseDefault"}

\* The chunk loop of job j ends as res: inside OpenAIBackend.transcribe_chunks
\* the finally block is still to run; the other two loops return or raise to
\* the worker, which ends.
LoopExit(j, res, text) ==
    IF backendKind = "OpenAIBackend"
    THEN SetJob(j, [jobs[j] EXCEPT !.res = res, !.text = text, !.pc = "c_fin"])
    ELSE Deliver(j, res, text)

\* One pass through the head of the chunk loop: the loop is exhausted and the
\* transcriptions are combined, or the iteration is cancelled, or chunk i is
\* sent for transcription.
LoopStep(j) ==
    /\ j \in JobIds
    /\ jobs[j].pc = "loop"
    /\ IF jobs[j].i > jobs[j].n
       THEN LoopExit(j, "text", combine_transcriptions(jobs[j].acc))
       ELSE IF ChecksCancel(backendKind) /\ should_cancel
       THEN LoopExit(j, "cancelled", <<>>)
       ELSE SetJob(j, [jobs[j] EXCEPT
                         !.calls.transcribe =
                            IF HasTranscribeChunks(backendKind) THEN @ ELSE @ + 1,
                         !.pc = IF backendKind = "OpenAIBackend" THEN "api" ELSE "t_enter"])
    /\ UNCHANGED <<backendVars, is_recording>>
    /\ UNCHANGED notJobVars

\* OpenAIBackend.transcribe_chunks: the API call for chunk i raises, or returns
\* a response that is stripped and appended.
ChunkApi(j) ==
    /\ j \in JobIds
    /\ jobs[j].pc = "api"
    /\ \/ SetJob(j, [jobs[j] EXCEPT !.res = "api_error", !.pc = "c_fin"])
       \/ \E response \in Responses(FileOf(j)) :
            SetJob(j, [jobs[j] EXCEPT
                         !.acc = AppendTranscription(@, Strip(response)),
                         !.i = @ + 1, !.pc = "loop"])
    /\ UNCHANGED <<backendVars, is_recording>>
    /\ UNCHANGED notJobVars

\* OpenAIBackend.transcribe_chunks: finally self.is_transcribing = False, and
\* the call returns or raises to the worker, which ends.
ChunksFinally(j) ==
    /\ j \in JobIds
    /\ jobs[j].pc = "c_fin"
    /\ is_transcribing' = FALSE
    /\ Deliver(j, jobs[j].res, jobs[j].text)
    /\ UNCHANGED <<backendKind, available, should_cancel, is_recording>>
    /\ UNCHANGED notJobVars

Next ==
    \/ start_recording
    \/ stop_recording
    \/ open_audio_file
    \/ cancel_transcription
    \/ \E j \in 1..MaxJobs :
          \/ StartDirect(j)
          \/ StartLarge(j)
          \/ SplitReturns(j)
          \/ TranscribeEnter(j)
          \/ TranscribeReset(j)
          \/ TranscribeApi(j)
          \/ TranscribeFinally(j)
          \/ ChunksEnter(j)
          \/ ChunksReset(j)
          \/ LoopStep(j)
          \/ ChunkApi(j)
          \/ ChunksFinally(j)

Spec == Init /\ [][Next]_vars

\* The hotkey manager alone: time passes and the hook receives events.
InitHotkey == JobsIdle /\ HotkeyInit /\ probe = NoProbe /\ runs = NoRuns /\ CallIdle /\ UiInit /\ DialogIdle
NextHotkey == Tick \/ KeyboardEvent
SpecHotkey == InitHotkey /\ [][NextHotkey]_vars

\* One call of _matches_hotkey on every probed hotkey string and event.
InitMatch ==
    /\ JobsIdle /\ HotkeyIdle /\ runs = NoRuns /\ CallIdle /\ UiInit /\ DialogIdle
    /\ probe \in { [ tokens |-> tokens, hotkey_string |-> Join(tokens), event |-> event,
                     called |-> FALSE, result |-> FALSE ] :
                   tokens \in ProbeTokens, event \in ProbeEvents }
NextMatch == Match
SpecMatch == InitMatch /\ [][NextMatch]_vars

\* Every script, run on each of the three paths.
InitEquiv ==
    /\ JobsInit /\ backendKind = "OpenAIBackend" /\ HotkeyIdle /\ probe = NoProbe /\ CallIdle /\ UiInit /\ DialogIdle
    /\ runs \in { [NoRuns EXCEPT !.script = script] : script \in Scripts }
NextEquiv == RunFallback \/ RunNative \/ RunBase
SpecEquiv == InitEquiv /\ [][NextEquiv]_vars

\* The steps of the worker thread that runs job j. A pool thread that has
\* work keeps running, and every splitter and backend call returns: each
\* worker's steps are weakly fair.
WorkerStep(j) ==
    \/ StartDirect(j) \/ StartLarge(j) \/ SplitReturns(j)
    \/ TranscribeEnter(j) \/ TranscribeReset(j) \/ TranscribeApi(j) \/ TranscribeFinally(j)
    \/ ChunksEnter(j) \/ ChunksReset(j) \/ LoopStep(j) \/ ChunkApi(j) \/ ChunksFinally(j)
SpecLive == Init /\ [][Next]_vars /\ \A j \in 1..MaxJobs : WF_vars(WorkerStep(j))

\* ------------------------------------------------------------------ the window
\* The handlers, the workers and the scheduled callbacks as they act on the
\* widgets. A backend call is taken in two steps, its entry and its return.
\* A handler runs on the UI thread (a button or a menu entry) or on a thread
\* the hotkey hook started.
Threads == {"ui", "hotkey"}

InitUI ==
    /\ JobsInit /\ backendKind = "OpenAIBackend"
    /\ HotkeyIdle /\ probe = NoProbe /\ runs = NoRuns /\ CallIdle /\ UiInit /\ DialogIdle

\* root.after(0, callback): the callback joins the event queue.
Schedule(callback) ==
    /\ Len(after_queue) < MaxAfter
    /\ after_queue' = Append(after_queue, callback)

StatusCallback(status) == [fn |-> "update_status", arg |-> status]
CompleteCallback == [fn |-> "_on_transcription_complete", arg |-> "text"]
ErrorCallback(res) == [fn |-> "_on_transcription_error", arg |-> res]

\* executor.submit(...) by a handler.
SubmitJob(kind) ==
    /\ Len(jobs) < MaxPending
    /\ jobs' = Append(jobs, NewJob(kind))

\* The job j has ended: it leaves the jobs in flight.
EndJob(j) ==
    jobs' = [k \in 1..(Len(jobs) - 1) |-> IF k < j THEN jobs[k] ELSE jobs[k + 1]]

\* MainWindow.start_recording on thread t: from the start button, or from
\* toggle_recording when the recorder is not recording.
StartRecording(t) ==
    /\ t = "ui" => widgets.start_button = "normal"
    /\ ~is_recording
    /\ is_recording' = TRUE
    /\ recording_data' = TRUE
    /\ widgets' = update_status([widgets EXCEPT !.start_button = "disabled",
                                                !.stop_button = "normal",
                                                !.cancel_button = "normal",
                                                !.open_file_button = "disabled"],
                                <<"Recording">>, TRUE)
    /\ mutation' = [thread |-> t, handler |-> "start_recording"]
    /\ delivered' = NoOutcome
    /\ UNCHANGED <<backendVars, jobs, after_queue>>
    /\ UNCHANGED notUiVars

\* MainWindow.stop_recording on thread t: from the stop button, or from
\* toggle_recording when the recorder is recording. recorder.stop_recording()
\* returns False and the handler returns; or the recording fails one of the
\* checks and _on_transcription_error is called at once; or it is handed to a
\* direct or a large-file job.
StopRecording(t) ==
    /\ t = "ui" => widgets.stop_button = "normal"
    /\ is_recording
    /\ LET w == update_status([widgets EXCEPT !.start_button = "disabled",
                                              !.stop_button = "disabled"],
                              <<"Transcribing">>, TRUE)
       IN  \/ /\ widgets' = w
              /\ UNCHANGED <<jobs, is_recording>>
           \/ /\ widgets' = OnTranscriptionError(w)
              /\ is_recording' = FALSE
              /\ UNCHANGED jobs
           \/ /\ recording_data
              /\ SubmitJob("direct")
              /\ is_recording' = FALSE
              /\ widgets' = w
           \/ /\ recording_data
              /\ SubmitJob("large")
              /\ is_recording' = FALSE
              /\ widgets' = update_status(w, <<"Processing", "large", "file">>, TRUE)
    /\ mutation' = [thread |-> t, handler |-> "stop_recording"]
    /\ delivered' = NoOutcome
    /\ UNCHANGED <<backendVars, after_queue, recording_data>>
    /\ UNCHANGED notUiVars

\* MainWindow.open_audio_file, from the open-file button or the File menu,
\* with a file that passed the tests: the size check raises, or the file is
\* handed to a direct or a large-file job.
OpenAudioFile ==
    /\ LET w == update_status([widgets EXCEPT !.start_button = "disabled",
                                              !.stop_button = "disabled",
                                              !.open_file_button = "disabled",
                                              !.cancel_button = "normal"],
                              <<"Processing", "audio", "file">>, TRUE)
       IN  \/ /\ widgets' = OnTranscriptionError(w)
              /\ UNCHANGED jobs
           \/ /\ SubmitJob("direct")
              /\ widgets' = w
           \/ /\ SubmitJob("large")
              /\ widgets' = update_status(w, <<"Processing", "large", "file">>, TRUE)
    /\ mutation' = [thread |-> "ui", handler |-> "open_audio_file"]
    /\ delivered' = NoOutcome
    /\ UNCHANGED <<backendVars, is_recording, after_queue, recording_data>>
    /\ UNCHANGED notUiVars

\* AudioRecorder.stop_recording followed by clear_recording_data: the
\* recorder no longer records and its buffer is empty.
StopAndClearRecording ==
    /\ is_recording' = FALSE
    /\ recording_data' = FALSE

\* A cancel handler that looks at the backend before the recorder.
CancelBackendFirst(t) ==
    /\ t = "ui" => widgets.cancel_button = "normal"
    /\ IF is_transcribing
       THEN /\ should_cancel' = TRUE
            /\ widgets' = [show_canceling(widgets) EXCEPT
                              !.start_button = "normal", !.open_file_button = "normal",
                              !.cancel_button = "disabled"]
            /\ mutation' = [thread |-> t, handler |-> "cancel_transcription: transcribing"]
            /\ UNCHANGED <<backendKind, available, is_transcribing, is_recording, recording_data>>
       ELSE /\ StopAndClearRecording
            /\ widgets' = [show_canceling(widgets) EXCEPT
                              !.start_button = "normal", !.stop_button = "disabled",
                              !.open_file_button = "normal", !.cancel_button = "disabled"]
            /\ mutation' = [thread |-> t, handler |-> "cancel_transcription: recording"]
            /\ UNCHANGED backendVars
    /\ delivered' = NoOutcome
    /\ UNCHANGED <<jobs, after_queue>>
    /\ UNCHANGED notUiVars

\* MainWindow.cancel_transcription on thread t: from the cancel button or
\* from the cancel hotkey.
CancelTranscription(t) ==
    /\ t = "ui" => widgets.cancel_button = "normal"
    /\ IF is_recording
       THEN /\ StopAndClearRecording
            /\ widgets' = [show_canceling(widgets) EXCEPT
                              !.start_button = "normal", !.stop_button = "disabled",
                              !.open_file_button = "normal", !.cancel_button = "disabled"]
            /\ mutation' = [thread |-> t, handler |-> "cancel_transcription: recording"]
            /\ UNCHANGED backendVars
       ELSE IF is_transcribing
       THEN /\ should_cancel' = TRUE
            /\ widgets' = [show_canceling(widgets) EXCEPT
                              !.start_button = "normal", !.open_file_button = "normal",
                              !.cancel_button = "disabled"]
            /\ mutation' = [thread |-> t, handler |-> "cancel_transcription: transcribing"]
            /\ UNCHANGED <<backendKind, available, is_transcribing, is_recording, recording_data>>
       ELSE /\ widgets' = [show_canceling(widgets) EXCEPT
                              !.start_button = "normal", !.open_file_button = "normal",
                              !.cancel_button = "disabled"]
            /\ mutation' = [thread |-> t, handler |-> "cancel_transcription: idle"]
            /\ UNCHANGED <<backendVars, is_recording, recording_data>>
    /\ delivered' = NoOutcome
    /\ UNCHANGED <<jobs, after_queue>>
    /\ UNCHANGED notUiVars

\* MainWindow._transcribe_audio / _transcribe_audio_from_file start on a pool
\* thread: the worker calls status_controller.update_status itself, then
\* calls the backend.
WorkerBeginsDirect(j) ==
    /\ j \in JobIds
    /\ CanStart(j)
    /\ jobs[j].kind = "direct"
    /\ jobs' = [jobs EXCEPT ![j].pc = "t_enter", ![j].calls.transcribe = @ + 1]
    /\ widgets' = update_status(widgets, <<"Transcribing">>, TRUE)
    /\ mutation' = [thread |-> "worker", handler |-> "_transcribe_audio"]
    /\ delivered' = NoOutcome
    /\ UNCHANGED <<backendVars, is_recording, after_queue, recording_data>>
    /\ UNCHANGED notUiVars

\* MainWindow._transcribe_large_audio / _transcribe_large_audio_from_file start
\* on a pool thread: the worker schedules a status update and calls
\* split_audio_file.
WorkerBeginsLarge(j) ==
    /\ j \in JobIds
    /\ CanStart(j)
    /\ jobs[j].kind = "large"
    /\ jobs' = [jobs EXCEPT ![j].pc = "split", ![j].calls.split_audio_file = @ + 1]
    /\ Schedule(StatusCallback(<<"Processing", "large", "audio", "file">>))
    /\ mutation' = NoMutation
    /\ delivered' = NoOutcome
    /\ UNCHANGED <<backendVars, is_recording, widgets, recording_data>>
    /\ UNCHANGED notUiVars

\* split_audio_file raises or returns no chunk, and the worker schedules
\* _on_transcription_error and ends; or it returns chunks, and the worker
\* schedules a status update and calls transcribe_chunks.
WorkerSplits(j) ==
    /\ j \in JobIds
    /\ jobs[j].pc = "split"
    /\ \/ \E res \in SplitFailures :
            /\ Schedule(ErrorCallback(res))
            /\ EndJob(j)
       \/ /\ Schedule(StatusCallback(<<"Transcribing", "chunks">>))
          /\ jobs' = [jobs EXCEPT ![j].pc = "c_enter", ![j].calls.transcribe_chunks = @ + 1]
    /\ mutation' = NoMutation
    /\ delivered' = NoOutcome
    /\ UNCHANGED <<backendVars, is_recording, widgets, recording_data>>
    /\ UNCHANGED notUiVars

\* OpenAIBackend.transcribe / transcribe_chunks, entry: the backend is not
\* available, the call raises and the worker schedules
\* _on_transcription_error; or is_transcribing is set and the cancel flag reset.
BackendCallEnters(j) ==
    /\ j \in JobIds
    /\ jobs[j].pc \in {"t_enter", "c_enter"}
    /\ IF available
       THEN /\ is_transcribing' = TRUE
            /\ should_cancel' = FALSE
            /\ jobs' = [jobs EXCEPT ![j].pc = IF @ = "t_enter" THEN "t_api" ELSE "api"]
            /\ UNCHANGED after_queue
       ELSE /\ Schedule(ErrorCallback("unavailable"))
            /\ EndJob(j)
            /\ UNCHANGED <<is_transcribing, should_cancel>>
    /\ mutation' = NoMutation
    /\ delivered' = NoOutcome
    /\ UNCHANGED <<backendKind, available, is_recording, widgets, recording_data>>
    /\ UNCHANGED notUiVars

\* How a backend call that was entered can end: the API raises; the cancel
\* flag is seen and the call raises "Transcription cancelled"; or the text
\* is returned, which a chunked call also does when the flag was raised
\* after its last test.
CallOutcomes(kind) ==
    {"api_error"} \cup (IF should_cancel THEN {"cancelled"} ELSE {"text"})
                  \cup (IF kind = "large" THEN {"text"} ELSE {})

\* A worker that swallows a cancelled call: it ends without scheduling a
\* callback.
BackendCallReturnsSilentCancel(j) ==
    /\ j \in JobIds
    /\ jobs[j].pc \in {"t_api", "api"}
    /\ is_transcribing' = FALSE
    /\ \E res \in CallOutcomes(jobs[j].kind) :
          IF res = "cancelled" THEN UNCHANGED after_queue
          ELSE Schedule(IF res = "text" THEN CompleteCallback
                                        ELSE ErrorCallback(res))
    /\ EndJob(j)
    /\ mutation' = NoMutation
    /\ delivered' = NoOutcome
    /\ UNCHANGED <<backendKind, available, should_cancel, is_recording, widgets, recording_data>>
    /\ UNCHANGED notUiVars

\* OpenAIBackend.transcribe / transcribe_chunks return or raise: the finally
\* block clears is_transcribing, and the worker schedules
\* _on_transcription_complete or _on_transcription_error and ends.
BackendCallReturns(j) ==
    /\ j \in JobIds
    /\ jobs[j].pc \in {"t_api", "api"}
    /\ is_transcribing' = FALSE
    /\ \E res \in CallOutcomes(jobs[j].kind) :
          Schedule(IF res = "text" THEN CompleteCallback
                                   ELSE ErrorCallback(res))
    /\ EndJob(j)
    /\ mutation' = NoMutation
    /\ delivered' = NoOutcome
    /\ UNCHANGED <<backendKind, available, should_cancel, is_recording, widgets, recording_data>>
    /\ UNCHANGED notUiVars

\* The Tk main loop runs the oldest scheduled callback on the UI thread.
MainLoopRunsCallback ==
    /\ after_queue # <<>>
    /\ Head(after_queue).fn \in
          {"update_status", "_on_transcription_complete", "_on_transcription_error"}
    /\ LET callback == Head(after_queue)
       IN  /\ widgets' =
                 IF callback.fn = "update_status" THEN update_status(widgets, callback.arg, TRUE)
                 ELSE IF callback.fn = "_on_transcription_complete"
                 THEN OnTranscriptionComplete(widgets)
                 ELSE OnTranscriptionError(widgets)
           /\ mutation' = [thread |-> "ui", handler |-> callback.fn]
           /\ delivered' =
                 IF callback.fn = "update_status" THEN NoOutcome
                 ELSE [NoOutcome EXCEPT
                         !.res = callback.arg,
                         !.sink = IF callback.fn = "_on_transcription_complete"
                                  THEN "complete" ELSE "error"]
    /\ after_queue' = Tail(after_queue)
    /\ UNCHANGED <<backendVars, is_recording, jobs, recording_data>>
    /\ UNCHANGED notUiVars

NextUI ==
    \/ \E t \in Threads : StartRecording(t)
    \/ \E t \in Threads : StopRecording(t)
    \/ OpenAudioFile
    \/ \E t \in Threads : CancelTranscription(t)
    \/ \E j \in 1..MaxPending :
          \/ WorkerBeginsDirect(j)
          \/ WorkerBeginsLarge(j)
          \/ WorkerSplits(j)
          \/ BackendCallEnters(j)
          \/ BackendCallReturns(j)
    \/ MainLoopRunsCallback

SpecUI == InitUI /\ [][NextUI]_vars

\* The steps of the pool thread that runs job j in the window.
WindowWorkerStep(j) ==
    \/ WorkerBeginsDirect(j) \/ WorkerBeginsLarge(j) \/ WorkerSplits(j)
    \/ BackendCallEnters(j) \/ BackendCallReturns(j)

\* Pool threads keep running and their calls return, and the Tk main loop
\* keeps running the callbacks scheduled with root.after.
SpecUILive ==
    /\ InitUI /\ [][NextUI]_vars
    /\ \A j \in 1..MaxPending : WF_vars(WindowWorkerStep(j))
    /\ WF_vars(MainLoopRunsCallback)

\* ------------------------------------------------------------------ chunk progress
\* The per-chunk fallback loop of a large-file worker and the status updates
\* it schedules. The worker's locals current_chunk and total_chunks are the
\* job's i and n: the scheduled lambda reads them when the main loop runs it.
\* The number of transcriptions appended so far is the loop's position.

\* f"Transcribing chunk {current_chunk}/{total_chunks}..."
ChunkStatus(current_chunk, total_chunks) ==
    <<"Transcribing", "chunk", ToString(current_chunk), "/", ToString(total_chunks)>>

\* root.after(0, lambda: ...update_status(f"Transcribing chunk ...")), scheduled
\* in the iteration of chunk scheduled_for.
ChunkStatusLambda(scheduled_for) ==
    [fn |-> "chunk_status_lambda", arg |-> "none", scheduled_for |-> scheduled_for]

\* A large-file job of a backend without transcribe_chunks, its split done.
InitProgress ==
    /\ backendKind = "NoChunks" /\ available = TRUE
    /\ is_transcribing = FALSE /\ should_cancel = FALSE /\ is_recording = FALSE
    /\ delivered = NoOutcome
    /\ HotkeyIdle /\ probe = NoProbe /\ runs = NoRuns /\ CallIdle /\ DialogIdle
    /\ widgets = WidgetsInit /\ mutation = NoMutation /\ recording_data = FALSE
    /\ after_queue = <<>>
    /\ \E n \in 1..MaxFallbackChunks :
          jobs = << [NewJob("large") EXCEPT
                       !.pc = "f_status", !.n = n, !.calls.split_audio_file = 1] >>

\* The head of an iteration: current_chunk = i + 1, total_chunks =
\* len(chunk_files), and the status lambda is scheduled.
FallbackSchedulesStatus ==
    /\ jobs[1].pc = "f_status"
    /\ LET current_chunk == Len(jobs[1].acc) + 1
       IN  /\ jobs' = [jobs EXCEPT ![1].i = current_chunk, ![1].pc = "f_call",
                                   ![1].calls.transcribe = @ + 1]
           /\ after_queue' = Append(after_queue, ChunkStatusLambda(current_chunk))
    /\ mutation' = NoMutation
    /\ delivered' = NoOutcome
    /\ UNCHANGED <<backendVars, is_recording, widgets, recording_data>>
    /\ UNCHANGED notUiVars

\* current_backend.transcribe(chunk_file) returns and its text is appended,
\* or it raises and the worker schedules _on_transcription_error and returns.
FallbackTranscribes ==
    /\ jobs[1].pc = "f_call"
    /\ \/ \E response \in Responses(jobs[1].i) :
            jobs' = [jobs EXCEPT
                       ![1].acc = AppendTranscription(@, Strip(response)),
                       ![1].pc = IF Len(jobs[1].acc) + 1 = jobs[1].n
                                 THEN "f_combine" ELSE "f_status"]
            /\ UNCHANGED after_queue
       \/ /\ jobs' = [jobs EXCEPT ![1].pc = "returned", ![1].res = "api_error"]
          /\ after_queue' = Append(after_queue, ErrorCallback("api_error"))
    /\ mutation' = NoMutation
    /\ delivered' = NoOutcome
    /\ UNCHANGED <<backendVars, is_recording, widgets, recording_data>>
    /\ UNCHANGED notUiVars

\* After the loop: the "Combining transcriptions..." update and
\* _on_transcription_complete are scheduled, and the worker returns.
FallbackCombines ==
    /\ jobs[1].pc = "f_combine"
    /\ jobs' = [jobs EXCEPT ![1].pc = "returned", ![1].res = "text",
                            ![1].text = combine_transcriptions(jobs[1].acc)]
    /\ after_queue' = after_queue \o << StatusCallback(<<"Combining", "transcriptions">>),
                                        CompleteCallback >>
    /\ mutation' = NoMutation
    /\ delivered' = NoOutcome
    /\ UNCHANGED <<backendVars, is_recording, widgets, recording_data>>
    /\ UNCHANGED notUiVars

\* The main loop runs a scheduled chunk status lambda: the status is
\* formatted from the worker's current_chunk and total_chunks as they are now.
MainLoopRunsChunkStatus ==
    /\ after_queue # <<>>
    /\ Head(after_queue).fn = "chunk_status_lambda"
    /\ widgets' = [update_status(widgets, <<"Transcribing", "chunk">>, TRUE) EXCEPT
                     !.status_label = ChunkStatus(jobs[1].i, jobs[1].n)]
    /\ mutation' = [thread |-> "ui", handler |-> "chunk_status_lambda",
                    scheduled_for |-> Head(after_queue).scheduled_for]
    /\ after_queue' = Tail(after_queue)
    /\ delivered' = NoOutcome
    /\ UNCHANGED <<backendVars, is_recording, jobs, recording_data>>
    /\ UNCHANGED notUiVars

NextProgress ==
    \/ FallbackSchedulesStatus
    \/ FallbackTranscribes
    \/ FallbackCombines
    \/ MainLoopRunsChunkStatus
    \/ MainLoopRunsCallback

SpecProgress == InitProgress /\ [][NextProgress]_vars

\* One call of OpenAIBackend.transcribe (a direct job) or of
\* OpenAIBackend.transcribe_chunks (a large-file job over n chunk files) by
\* one worker, the backend available or not, the cancellation flag as an
\* earlier call left it, and at most one cancel_transcription() call on the
\* backend at any moment of the call.
CallJobs ==
    { [NewJob("direct") EXCEPT !.pc = "t_enter", !.calls.transcribe = 1] } \cup
    { [NewJob("large") EXCEPT !.pc = "c_enter", !.n = n, !.i = 1,
                              !.calls.split_audio_file = 1,
                              !.calls.transcribe_chunks = 1,
                              !.chunk_arg = ChunkFiles(n)] : n \in 1..MaxChunks }

InitCall ==
    /\ backendKind = "OpenAIBackend"
    /\ available \in BOOLEAN
    /\ is_transcribing = FALSE
    /\ should_cancel \in BOOLEAN
    /\ is_recording = FALSE
    /\ \E job \in CallJobs : jobs = <<job>>
    /\ delivered = NoOutcome
    /\ HotkeyIdle /\ probe = NoProbe /\ runs = NoRuns /\ CallIdle /\ UiInit /\ DialogIdle

\* TranscriptionBackend.cancel_transcription, called while the call is in
\* progress.
BackendCancel ==
    /\ jobs # <<>>
    /\ cancelled_at = NotCancelled
    /\ should_cancel' = TRUE
    /\ cancelled_at' = [pc |-> jobs[1].pc, i |-> jobs[1].i]
    /\ delivered' = NoOutcome
    /\ UNCHANGED <<backendKind, available, is_transcribing, is_recording, jobs>>
    /\ UNCHANGED <<hotkeyVars, probe, runs, uiVars, dialogVars>>

NextCall ==
    \/ BackendCancel
    \/ \E j \in 1..MaxJobs :
          \/ TranscribeEnter(j)
          \/ TranscribeReset(j)
          \/ TranscribeApi(j)
          \/ TranscribeFinally(j)
          \/ ChunksEnter(j)
          \/ ChunksReset(j)
          \/ LoopStep(j)
          \/ ChunkApi(j)
          \/ ChunksFinally(j)
SpecCall == InitCall /\ [][NextCall]_vars


\* ------------------------------------------------------------------ claims
LargeJobs == {j \in JobIds : jobs[j].kind = "large"}

\* The words of a text, in order, without the whitespace between them.
Words(text) == SelectSeq(text, LAMBDA c : c # Space)

\* C1 (as claimed): at any time at most one job is executing a call of
\* current_backend.transcribe or current_backend.transcribe_chunks.
C1_OneJobPerBackend == Cardinality({j \in JobIds : InBackendCall(j)}) <= 1

\* C2 (as claimed): every job that has ended, whatever its kind and its
\* outcome, has called cleanup_temp_files exactly once.
C2_CleanupOncePerJob == delivered # NoOutcome => delivered.cleanups = 1

\* C2 (amended): a large-file job that has ended has called
\* cleanup_temp_files exactly once, whether it ended with a text, with a
\* failure of the split or of the transcription, or cancelled; a direct job
\* that has ended has not called it.
C2_CleanupOncePerLargeJob ==
    /\ delivered.kind = "large" => delivered.cleanups = 1
    /\ delivered.kind = "direct" => delivered.cleanups = 0

\* A large-file job that ended by cancellation has cleaned up once.
C2_Witness ==
    delivered.kind = "large" /\ delivered.res = "cancelled" /\ delivered.cleanups = 1

\* C3 (as claimed): in a transcribe_chunks call over n chunks, once
\* should_cancel was raised while chunk k < n was being processed, no
\* transcription of a later chunk is started and the call does not return text.
C3_CancelStopsLaterChunks ==
    HasTranscribeChunks(backendKind) =>
        /\ \A j \in LargeJobs :
               jobs[j].cancel \in 1..(jobs[j].n - 1)
                   => ProcessingChunk(j) <= jobs[j].cancel /\ jobs[j].res # "text"
        /\ (delivered.kind = "large" /\ delivered.cancel \in 1..(delivered.n - 1))
               => delivered.res # "text"

\* C4 (as claimed): a large-file job during which the UI cancel was invoked
\* (while splitting, before the backend call, between or during chunks) does
\* not end with a text.
C4_CancelNeverLost ==
    (delivered.kind = "large" /\ delivered.cancel # NoCancel) => delivered.res # "text"

\* C5 (as claimed): a job that ended by cancellation is not delivered to
\* _on_transcription_error.
C5_CancelledIsNotAnError == delivered.res = "cancelled" => delivered.sink # "error"

\* C9: the text a large-file job ends with holds the word of every chunk file
\* exactly once, in the order of the chunk files; and while the loop runs the
\* transcriptions gathered so far are those of the first chunks, in order.
C9_ChunkOrder ==
    /\ (delivered.kind = "large" /\ delivered.res = "text")
          => Words(delivered.text) = ChunkFiles(delivered.n)
    /\ \A j \in LargeJobs :
        /\ jobs[j].pc \in {"loop", "api", "t_enter", "t_reset", "t_api", "t_fin"}
              => jobs[j].acc = [c \in 1..(jobs[j].i - 1) |-> <<ChunkFiles(jobs[j].n)[c]>>]
        /\ (jobs[j].res = "text" /\ jobs[j].pc = "c_fin")
              => Words(jobs[j].text) = ChunkFiles(jobs[j].n)

\* A large-file job over the most chunk files ends with its combined text.
C9_Witness ==
    /\ delivered.kind = "large" /\ delivered.res = "text"
    /\ delivered.n = MaxChunks
    /\ Len(delivered.text) = 2 * MaxChunks - 1

\* ------------------------------------------------------------------ hotkey claims
\* The modifier tokens of a probed hotkey string: all tokens but the last.
ListedIn(tokens, m) == \E k \in 1..(Len(tokens) - 1) : tokens[k] = m

\* C6: _matches_hotkey returns true exactly when the hotkey string is not
\* empty, the event's key name equals the last token of the string without
\* regard to case, and each of ctrl, alt, shift and win is pressed exactly
\* when it is one of the tokens before the last; the empty string never
\* matches.
C6_MatchesIffKeyAndExactModifiers ==
    probe.called =>
        (probe.result <=>
            /\ probe.tokens # <<>>
            /\ Lower(probe.event.name) = Lower(probe.tokens[Len(probe.tokens)])
            /\ \A m \in ModifierNames :
                   (m \in probe.event.pressed) <=> ListedIn(probe.tokens, m))

\* A match with two modifiers listed and held and a key name that differs
\* from the main key in case only.
C6_Witness ==
    /\ probe.called /\ probe.result
    /\ probe.event.pressed = {ctrl, shift}
    /\ probe.event.name # probe.tokens[Len(probe.tokens)]

\* C7: of two consecutive record-toggle presses the first of which started
\* the callback, the second starts it again exactly when it comes more than
\* the debounce window after the first; the first press after construction
\* starts it.
C7_DebounceOnceOrTwice ==
    /\ \A k \in 1..Len(pressLog) : pressLog[k].before = 0 => pressLog[k].started
    /\ (Len(pressLog) = 2 /\ pressLog[1].started) =>
           (pressLog[2].started <=> pressLog[2].t - pressLog[1].t > HOTKEY_DEBOUNCE_MS)

\* A second press inside the window of a first that started the callback.
C7_Witness ==
    /\ Len(pressLog) = 2
    /\ pressLog[1].started /\ ~pressLog[2].started
    /\ pressLog[2].t > pressLog[1].t
    /\ handled.started = "none" /\ ~handled.ret

\* C8 (as claimed): a trigger is rejected exactly when the time since the last accepted
\* trigger is below the debounce threshold and accepted otherwise, equality
\* included; the timestamp becomes the current time on acceptance and stays
\* as it was on rejection.
C8_RejectsExactlyBelowThreshold ==
    \A k \in 1..Len(pressLog) :
        /\ pressLog[k].accepted <=> ~(pressLog[k].t - pressLog[k].before < HOTKEY_DEBOUNCE_MS)
        /\ pressLog[k].after = IF pressLog[k].accepted THEN pressLog[k].t ELSE pressLog[k].before

\* C8 (amended): a trigger is rejected exactly when the time since the last
\* accepted trigger is at most the debounce threshold, equality included, and
\* accepted when it is above; the timestamp becomes the current time on
\* acceptance and stays as it was on rejection.
C8_RejectsAtOrBelowThreshold ==
    \A k \in 1..Len(pressLog) :
        /\ pressLog[k].accepted <=> ~(pressLog[k].t - pressLog[k].before <= HOTKEY_DEBOUNCE_MS)
        /\ pressLog[k].after = IF pressLog[k].accepted THEN pressLog[k].t ELSE pressLog[k].before
        /\ k = Len(pressLog) => last_trigger_time = pressLog[k].after

\* A trigger exactly the debounce threshold after the last accepted one is
\* rejected and leaves the timestamp as it was.
C8_Witness ==
    \E k \in 1..Len(pressLog) :
        /\ pressLog[k].t - pressLog[k].before = HOTKEY_DEBOUNCE_MS
        /\ ~pressLog[k].accepted
        /\ pressLog[k].after = pressLog[k].before

\* ------------------------------------------------------------------ path equivalence
SameOutcome(a, b) == (a.done /\ b.done) => (a.res = b.res /\ a.text = b.text)

\* C10: on the same script (chunk files, per-chunk results, cancellation at
\* the same point) the fallback path and a backend's transcribe_chunks, the
\* OpenAI one or the inherited one, end with the same outcome and the same
\* combined text.
C10_PathsAgree ==
    /\ SameOutcome(runs.fallback, runs.native)
    /\ SameOutcome(runs.fallback, runs.base)

\* ------------------------------------------------------------------ backend flags
\* The worker of job j is inside OpenAIBackend.transcribe or
\* OpenAIBackend.transcribe_chunks, past the statement that sets
\* is_transcribing and before the finally block that clears it.
BetweenSetAndFinally(j) ==
    \/ jobs[j].pc \in {"t_reset", "t_api", "t_fin", "c_reset", "api", "c_fin"}
    \/ jobs[j].pc = "loop" /\ backendKind = "OpenAIBackend"

\* C11 (as claimed): is_transcribing is true exactly while a transcribe or
\* transcribe_chunks call on the backend is executing, from the statement
\* that sets it to the finally block that clears it.
C11_FlagTrueExactlyDuringCall ==
    is_transcribing <=> \E j \in JobIds : BetweenSetAndFinally(j)

\* C12 (as claimed): a direct call of OpenAIBackend.transcribe during which
\* cancel_transcription() was called does not return text. Only the calls
\* made after is_transcribing was set and before the API call returned are
\* counted, the moments at which the UI can direct a cancel to the backend.
C12_CancelDuringTranscribe ==
    (delivered.kind = "direct" /\ cancelled_at.pc \in {"t_reset", "t_api"})
        => delivered.res # "text"

\* A step that enters transcribe or transcribe_chunks.
EntryStep == \E j \in 1..MaxJobs : TranscribeEnter(j) \/ ChunksEnter(j)

\* C13: on an unavailable backend the entry of transcribe and of
\* transcribe_chunks ends the call at once with the unavailable-backend
\* failure: no API call is started, the call is not made again, and
\* is_transcribing and should_cancel keep their values.
C13_UnavailableFailsAtOnce ==
    [][ (~available /\ EntryStep) =>
           /\ delivered'.res = "unavailable"
           /\ jobs' = <<>>
           /\ is_transcribing' = is_transcribing
           /\ should_cancel' = should_cancel ]_vars

\* A call on an unavailable backend has failed while a cancellation flag left
\* raised by an earlier call is still raised.
C13_Witness ==
    ~available /\ delivered.res = "unavailable" /\ should_cancel /\ ~is_transcribing

\* ------------------------------------------------------------------ worker outcomes
\* The ways a split or a backend call raises; the outcome names the exception
\* and so its message.
Failures == {"split_error", "no_chunks", "unavailable", "api_error", "cancelled"}

\* C14 (as claimed): every job whose split or transcription raised, the empty
\* chunk list included, has its exception delivered to _on_transcription_error,
\* and cleanup_temp_files has run.
C14_FailureToErrorSinkAndCleanup ==
    delivered.res \in Failures => (delivered.sink = "error" /\ delivered.cleanups = 1)

\* C14 (amended): every job whose split or transcription raised, the empty
\* chunk list included, ends with that exception delivered to
\* _on_transcription_error, and none ends in another way; a large-file job has
\* then run cleanup_temp_files once, a direct job has no cleanup to run.
C14_FailureToErrorSink ==
    /\ delivered # NoOutcome => delivered.res \in Failures \cup {"text"}
    /\ delivered.res \in Failures =>
          /\ delivered.sink = "error"
          /\ delivered.kind = "large" => delivered.cleanups = 1

\* A split that returned no chunk file has reached the error sink, cleaned up.
C14_Witness ==
    /\ delivered.kind = "large" /\ delivered.res = "no_chunks"
    /\ delivered.sink = "error" /\ delivered.cleanups = 1

\* ------------------------------------------------------------------ job life cycle
\* The phase of the per-job state machine a job in flight is in: its file was
\* checked and the job handed to the executor (Checking), it is being split,
\* or it is in its single direct backend call or in its chunked transcription.
Phase(job) ==
    IF job.pc = "queued" THEN "Checking"
    ELSE IF job.pc = "split" THEN "Splitting"
    ELSE IF job.kind = "direct" THEN "Direct" ELSE "Transcribing"

PhaseMoves ==
    { <<"Checking", "Direct">>, <<"Checking", "Splitting">>, <<"Splitting", "Transcribing">> }
      \cup { <<ph, ph>> : ph \in {"Checking", "Direct", "Splitting", "Transcribing"} }

\* One step keeps to the state machine: a job in flight moves along
\* PhaseMoves; a new job enters in Checking behind the others; a job leaves
\* exactly when a terminal outcome is delivered, from Splitting only as a
\* split failure, from Direct or Transcribing as Completed, Cancelled or Failed.
StepKeepsToStateMachine ==
    /\ (delivered' # NoOutcome) <=> (Len(jobs') = Len(jobs) - 1)
    /\ Len(jobs') = Len(jobs) =>
          \A j \in JobIds : <<Phase(jobs[j]), Phase(jobs'[j])>> \in PhaseMoves
    /\ Len(jobs') = Len(jobs) + 1 =>
          /\ SubSeq(jobs', 1, Len(jobs)) = jobs
          /\ Phase(jobs'[Len(jobs')]) = "Checking"
    /\ Len(jobs') = Len(jobs) - 1 =>
          \E j \in JobIds :
             /\ jobs' = [k \in 1..(Len(jobs) - 1) |-> IF k < j THEN jobs[k] ELSE jobs[k + 1]]
             /\ delivered'.kind = jobs[j].kind
             /\ delivered'.res \in Failures \cup {"text"}
             /\ Phase(jobs[j]) \in {"Direct", "Splitting", "Transcribing"}
             /\ Phase(jobs[j]) = "Splitting" <=> delivered'.res \in {"split_error", "no_chunks"}
    /\ Len(jobs') \in {Len(jobs) - 1, Len(jobs), Len(jobs) + 1}

C16_CallsPerJob ==
    /\ \A j \in JobIds :
          /\ jobs[j].calls.split_audio_file <= 1
          /\ jobs[j].calls.transcribe_chunks <= 1
          /\ jobs[j].kind = "direct" =>
                /\ jobs[j].calls.split_audio_file = 0
                /\ jobs[j].calls.transcribe_chunks = 0
                /\ jobs[j].calls.transcribe <= 1
          /\ (jobs[j].kind = "large" /\ backendKind # "NoChunks") =>
                jobs[j].calls.transcribe = 0
    /\ delivered.kind = "direct" =>
          delivered.calls = [split_audio_file |-> 0, transcribe |-> 1, transcribe_chunks |-> 0]
    /\ delivered.kind = "large" => delivered.calls.split_audio_file = 1
    /\ (delivered.kind = "large" /\ backendKind # "NoChunks"
          /\ delivered.res \notin SplitFailures) =>
          /\ delivered.calls.transcribe_chunks = 1
          /\ delivered.calls.transcribe = 0
          /\ delivered.n >= 1
          /\ delivered.chunk_arg = [c \in 1..delivered.n |-> c]

\* A split job of a backend that inherits transcribe_chunks has ended after
\* transcribing more than one chunk.
C16_Witness ==
    /\ backendKind = "BaseDefault"
    /\ delivered.kind = "large" /\ delivered.res = "text" /\ delivered.n > 1
    /\ delivered.calls.transcribe_chunks = 1

\* ------------------------------------------------------------------ flags at completion
\* C18: whenever a job completes successfully (its text is delivered to the
\* result sink), the backend's is_transcribing and should_cancel are both
\* false.
C18_FlagsClearAtCompletion ==
    (delivered.res = "text" /\ delivered.sink = "complete") =>
        (~is_transcribing /\ ~should_cancel)

\* ------------------------------------------------------------------ controls
\* A job's backend call is running before and after the step.
StillInCall ==
    \E j \in JobIds :
       /\ jobs[j].pc \in {"t_api", "api"}
       /\ j <= Len(jobs') /\ jobs'[j] = jobs[j]

Reenabled(button) == widgets[button] = "disabled" /\ widgets'[button] = "normal"

\* C17: after a job ends in failure or in cancellation, the start-recording
\* and open-file controls are enabled, the cancel control is disabled and
\* the progress overlay is cleared; and no step re-enables the start or the
\* open-file control while a job's backend call is still running.
C17_ControlsAfterFailure ==
    /\ [](delivered.sink = "error" =>
            /\ widgets.start_button = "normal"
            /\ widgets.open_file_button = "normal"
            /\ widgets.cancel_button = "disabled"
            /\ widgets.overlay = "hidden")
    /\ [][StillInCall => (~Reenabled("start_button") /\ ~Reenabled("open_file_button"))]_vars

\* C19: every mutation of a widget is made on the UI thread: pool workers
\* and the threads the hotkey handler starts never touch a widget.
C19_WidgetsOnUiThreadOnly == mutation.thread \in {"none", "ui"}

\* C20: the UI cancel stops and clears the recording and leaves the backend
\* alone when the recorder is recording, even if the backend is transcribing;
\* it raises should_cancel, and changes nothing else of the recorder and the
\* backend, when the recorder is not recording and is_transcribing is true;
\* otherwise it changes neither the recorder nor the backend.
C20_CancelTargets ==
    [][ (\E t \in Threads : CancelTranscription(t)) =>
          IF is_recording
          THEN /\ ~is_recording' /\ ~recording_data'
               /\ UNCHANGED backendVars
          ELSE IF is_transcribing
          THEN /\ should_cancel'
               /\ UNCHANGED <<backendKind, available, is_transcribing, is_recording, recording_data>>
          ELSE UNCHANGED <<backendVars, is_recording, recording_data>> ]_vars

\* A cancel has just stopped a recording while the backend was transcribing,
\* and should_cancel is not raised.
C20_Witness ==
    /\ mutation.handler = "cancel_transcription: recording"
    /\ is_transcribing /\ ~should_cancel
    /\ ~is_recording /\ ~recording_data

\* ------------------------------------------------------------------ the hook while disabled
\* The step is the hook handling a keyboard event: the clock stands still.
HookStep == now' = now

EnableKeyDown(event) ==
    event.event_type = "down" /\ MatchesHotkey(event, hotkeys.enable_disable)

\* C21: while program_enabled is false, no key event starts on_record_toggle
\* or on_cancel and the debounce timestamp is not changed; the only key
\* event with any effect is a key-down matching the enable_disable hotkey,
\* which flips program_enabled back to true.
C21_DisabledIgnoresAllButEnable ==
    [][ (~program_enabled /\ HookStep) =>
          /\ handled'.started = "none"
          /\ last_trigger_time' = last_trigger_time
          /\ pressLog' = pressLog
          /\ IF EnableKeyDown(handled'.event)
             THEN program_enabled' /\ handled'.ret = FALSE
             ELSE ~program_enabled' /\ handled'.ret = TRUE ]_vars

\* The record toggle key went down while the program was disabled, and was
\* passed through.
C21_Witness ==
    /\ ~program_enabled
    /\ handled.event.event_type = "down"
    /\ MatchesHotkey(handled.event, hotkeys.record_toggle)
    /\ handled.ret = TRUE /\ handled.started = "none"

\* C22: the hook suppresses (returns False for) exactly the key-down events
\* that match the enable_disable hotkey or, while the program is enabled,
\* the record_toggle hotkey (also when the trigger is debounced away) or the
\* cancel hotkey; every other event is passed through (returns True).
C22_SuppressesExactlyHotkeys ==
    [][ HookStep =>
          ( handled'.ret = FALSE <=>
              /\ handled'.event.event_type = "down"
              /\ \/ MatchesHotkey(handled'.event, hotkeys.enable_disable)
                 \/ /\ program_enabled
                    /\ \/ MatchesHotkey(handled'.event, hotkeys.record_toggle)
                       \/ MatchesHotkey(handled'.event, hotkeys.cancel) ) ]_vars

\* A record toggle key-down was debounced away, and its key suppressed.
C22_Witness ==
    /\ pressLog # <<>> /\ ~pressLog[Len(pressLog)].accepted
    /\ MatchesHotkey(handled.event, hotkeys.record_toggle)
    /\ handled.ret = FALSE /\ handled.started = "none"

\* ------------------------------------------------------------------ chunk progress shown
\* C23: in the per-chunk fallback path over n chunks, the status update
\* scheduled for the i-th chunk displays "Transcribing chunk i/n...",
\* however late the UI thread runs it.
C23_ChunkStatusShowsItsChunk ==
    mutation.handler = "chunk_status_lambda" =>
        widgets.status_label = ChunkStatus(mutation.scheduled_for, jobs[1].n)

\* ------------------------------------------------------------------ terminal callbacks
TerminalCallbacks == {"_on_transcription_complete", "_on_transcription_error"}

\* The callbacks a step has added to the event queue.
NewlyScheduled ==
    IF Len(after_queue') > Len(after_queue)
    THEN SubSeq(after_queue', Len(after_queue) + 1, Len(after_queue'))
    ELSE <<>>

\* C25: each job worker schedules exactly one terminal callback per job,
\* _on_transcription_complete or _on_transcription_error: the step in which
\* a worker ends schedules one of the two, and no other step of a worker or
\* of a handler schedules any.
C25_OneTerminalCallbackPerJob ==
    [][ LET terminals == {k \in 1..Len(NewlyScheduled) :
                             NewlyScheduled[k].fn \in TerminalCallbacks}
        IN  /\ Len(jobs') >= Len(jobs) - 1
            /\ Len(jobs') = Len(jobs) - 1 => Cardinality(terminals) = 1
            /\ Len(jobs') >= Len(jobs) => terminals = {} ]_vars

\* A cancelled job has ended and its error callback waits in the event queue.
C25_Witness ==
    /\ jobs = <<>>
    /\ \E k \in 1..Len(after_queue) :
          after_queue[k].fn = "_on_transcription_error" /\ after_queue[k].arg = "cancelled"

\* ------------------------------------------------------------------ after stop_recording
\* C26: after stop_recording is invoked, the start-recording button is
\* eventually re-enabled on every path, the recorder refusing to stop
\* included.
C26_StartReenabledAfterStop ==
    (mutation.handler = "stop_recording") ~> (widgets.start_button = "normal")

\* ------------------------------------------------------------------ the Whisper model dialog
\* Bound: the download threads one dialog starts.
MaxDownloads == 3

\* __init__ and show(): current_model is the persisted setting, the radio
\* selection starts at it, the widgets are built from the cache directory;
\* open_whisper_models passes the local backend if there is one.
InitDialog ==
    /\ JobsIdle /\ HotkeyIdle /\ probe = NoProbe /\ runs = NoRuns /\ CallIdle /\ UiInit
    /\ DownloadInit
    /\ cache \in SUBSET MODELS
    /\ dialog_widgets = CreateWidgets(0, cache)
    /\ current_model \in MODELS
    /\ selected_model = current_model
    /\ whisper_model = current_model
    /\ DEFAULT_WHISPER_MODEL = current_model
    /\ backend \in {"None", "LocalWhisperBackend"}

\* dialog.after(0, callback), called by a download thread.
DialogSchedule(callback) == dialog_after' = Append(dialog_after, callback)

\* The download whose progress section is on screen is the one started last.
MarkCancelled(threads) ==
    IF threads = <<>> THEN threads
    ELSE [threads EXCEPT ![Len(threads)].cancelled = TRUE]

\* _delete_partial_downloads: every file of the model leaves the cache directory.
DeletePartialDownloads(model_name, files) == files \ {model_name}

\* _download_model, the command of a row's Download button.
DownloadModel(model_name, response) ==
    /\ dialog_widgets.exists
    /\ dialog_widgets.download_btn[model_name] \in {"Download", "Download Failed"}
    /\ Len(download_threads) < MaxDownloads
    /\ IF downloading
       THEN /\ shown' = [box |-> "Download in Progress", model |-> model_name]
            /\ UNCHANGED downloadVars
       ELSE IF ~response
       THEN /\ shown' = NoBox
            /\ UNCHANGED downloadVars
       ELSE /\ downloading' = TRUE
            /\ download_cancelled' = FALSE
            /\ current_download_model' = model_name
            /\ dialog_widgets' = [dialog_widgets EXCEPT
                                    !.download_btn[model_name] = "Downloading...",
                                    !.progress_section = "shown",
                                    !.close_button = "disabled"]
            /\ download_threads' = Append(download_threads,
                                      [model |-> model_name, pc |-> "running",
                                       generation |-> dialog_widgets.generation,
                                       cancelled |-> FALSE, reported |-> FALSE])
            /\ shown' = NoBox
            /\ UNCHANGED <<cache, dialog_after>>
    /\ UNCHANGED modelVars
    /\ UNCHANGED notDialogVars

\* _cancel_download, the command of the Cancel button of the progress section.
CancelDownload(response) ==
    /\ dialog_widgets.exists
    /\ dialog_widgets.progress_section = "shown"
    /\ dialog_widgets.cancel_download_btn = "normal"
    /\ IF response
       THEN /\ download_cancelled' = TRUE
            /\ downloading' = FALSE
            /\ cache' = IF current_download_model # NoModel
                        THEN DeletePartialDownloads(current_download_model, cache)
                        ELSE cache
            /\ dialog_widgets' = [dialog_widgets EXCEPT
                                    !.cancel_download_btn = "disabled",
                                    !.progress_section = "hidden",
                                    !.close_button = "normal"]
            /\ download_threads' = MarkCancelled(download_threads)
            /\ shown' = [box |-> "Download Cancelled", model |-> current_download_model]
            /\ UNCHANGED <<current_download_model, dialog_after>>
       ELSE /\ shown' = NoBox
            /\ UNCHANGED downloadVars
    /\ UNCHANGED modelVars
    /\ UNCHANGED notDialogVars

\* _close, the command of the Close button.
Close(response) ==
    /\ dialog_widgets.exists
    /\ dialog_widgets.close_button = "normal"
    /\ shown' = NoBox
    /\ IF downloading
       THEN IF response
            THEN /\ download_cancelled' = TRUE
                 /\ downloading' = FALSE
                 /\ cache' = IF current_download_model # NoModel
                             THEN DeletePartialDownloads(current_download_model, cache)
                             ELSE cache
                 /\ download_threads' = MarkCancelled(download_threads)
                 /\ dialog_widgets' = [dialog_widgets EXCEPT !.exists = FALSE]
                 /\ UNCHANGED <<current_download_model, dialog_after>>
            ELSE UNCHANGED downloadVars
       ELSE /\ dialog_widgets' = [dialog_widgets EXCEPT !.exists = FALSE]
            /\ UNCHANGED <<downloading, download_cancelled, current_download_model,
                           download_threads, cache, dialog_after>>
    /\ UNCHANGED modelVars
    /\ UNCHANGED notDialogVars

\* download_thread, inside whisper.load_model: the model file is written into
\* the cache directory.
ThreadDownloads(t) ==
    /\ t \in 1..Len(download_threads)
    /\ download_threads[t].pc = "running"
    /\ download_threads[t].model \notin cache
    /\ cache' = cache \cup {download_threads[t].model}
    /\ shown' = NoBox
    /\ UNCHANGED <<downloading, download_cancelled, current_download_model,
                   download_threads, dialog_widgets, dialog_after>>
    /\ UNCHANGED modelVars
    /\ UNCHANGED notDialogVars

\* download_thread, after whisper.load_model returned (which needs the model
\* file) or raised: the thread reads download_cancelled and schedules the
\* callback, then ends.
ThreadFinishes(t, loaded) ==
    /\ t \in 1..Len(download_threads)
    /\ download_threads[t].pc = "running"
    /\ loaded => download_threads[t].model \in cache
    /\ download_threads' = [download_threads EXCEPT ![t].pc = "finished"]
    /\ LET model_name == download_threads[t].model
           generation == download_threads[t].generation
       IN IF loaded
          THEN IF ~download_cancelled
               THEN DialogSchedule([fn |-> "_download_complete", model |-> model_name,
                                    success |-> TRUE, thread |-> t,
                                    generation |-> generation])
               ELSE DialogSchedule([fn |-> "_cleanup_cancelled_download",
                                    model |-> model_name, success |-> FALSE,
                                    thread |-> t, generation |-> generation])
          ELSE IF ~download_cancelled
               THEN DialogSchedule([fn |-> "_download_complete", model |-> model_name,
                                    success |-> FALSE, thread |-> t,
                                    generation |-> generation])
               ELSE UNCHANGED dialog_after
    /\ shown' = NoBox
    /\ UNCHANGED <<downloading, download_cancelled, current_download_model,
                   cache, dialog_widgets>>
    /\ UNCHANGED modelVars
    /\ UNCHANGED notDialogVars

\* The button a callback was given is a widget of the dialog as it was when
\* the download started; configuring it works while that dialog still exists.
ButtonAlive(callback) ==
    dialog_widgets.exists /\ callback.generation = dialog_widgets.generation

\* _download_complete, run by the main loop.
DownloadComplete(callback) ==
    /\ downloading' = FALSE
    /\ IF ~dialog_widgets.exists
       THEN \* progress_section.pack_forget() raises on the destroyed dialog
            /\ shown' = NoBox
            /\ UNCHANGED <<dialog_widgets, download_threads, selected_model>>
       ELSE IF callback.success
       THEN \* the box, then dialog.destroy() and show(): the widgets are rebuilt
            /\ shown' = [box |-> "Download Complete", model |-> callback.model]
            /\ download_threads' =
                   [download_threads EXCEPT ![callback.thread].reported = TRUE]
            /\ dialog_widgets' = CreateWidgets(dialog_widgets.generation + 1, cache)
            /\ selected_model' = current_model
       ELSE IF ButtonAlive(callback)
       THEN /\ shown' = [box |-> "Download Failed", model |-> callback.model]
            /\ dialog_widgets' = [dialog_widgets EXCEPT
                                    !.progress_section = "hidden",
                                    !.download_btn[callback.model] = "Download Failed"]
            /\ UNCHANGED <<download_threads, selected_model>>
       ELSE \* button.config raises before the box is shown
            /\ shown' = NoBox
            /\ dialog_widgets' = [dialog_widgets EXCEPT !.progress_section = "hidden"]
            /\ UNCHANGED <<download_threads, selected_model>>
    /\ UNCHANGED <<download_cancelled, current_download_model, cache>>

\* _cleanup_cancelled_download, run by the main loop.
CleanupCancelledDownload(callback) ==
    /\ cache' = DeletePartialDownloads(callback.model, cache)
    /\ dialog_widgets' = IF ButtonAlive(callback)
                         THEN [dialog_widgets EXCEPT
                                 !.download_btn[callback.model] = "Download"]
                         ELSE dialog_widgets
    /\ shown' = NoBox
    /\ UNCHANGED <<downloading, download_cancelled, current_download_model,
                   download_threads, selected_model>>

\* The main loop runs the oldest callback scheduled with dialog.after(0, ...).
MainLoopRunsDialogCallback ==
    /\ dialog_after # <<>>
    /\ dialog_after' = Tail(dialog_after)
    /\ IF Head(dialog_after).fn = "_download_complete"
       THEN DownloadComplete(Head(dialog_after))
       ELSE CleanupCancelledDownload(Head(dialog_after))
    /\ UNCHANGED <<current_model, whisper_model, DEFAULT_WHISPER_MODEL, backend>>
    /\ UNCHANGED notDialogVars

\* A click on the radio button of a row writes selected_model, whose trace is
\* _on_model_selected; reload_model of the backend returns or raises.
OnModelSelected(selected, reloads) ==
    /\ dialog_widgets.exists
    /\ IF ~IsModelDownloaded(selected, cache)
       THEN /\ shown' = [box |-> "Model Not Downloaded", model |-> selected]
            /\ selected_model' = current_model
            /\ UNCHANGED <<current_model, whisper_model, DEFAULT_WHISPER_MODEL>>
       ELSE IF selected = current_model
       THEN /\ shown' = NoBox
            /\ selected_model' = selected
            /\ UNCHANGED <<current_model, whisper_model, DEFAULT_WHISPER_MODEL>>
       ELSE /\ DEFAULT_WHISPER_MODEL' = selected
            /\ whisper_model' = selected
            /\ IF backend # "None" /\ ~reloads
               THEN /\ shown' = [box |-> "Error", model |-> selected]
                    /\ selected_model' = current_model
                    /\ UNCHANGED current_model
               ELSE /\ shown' = [box |-> "Model Changed", model |-> selected]
                    /\ selected_model' = selected
                    /\ current_model' = selected
    /\ UNCHANGED <<downloadVars, backend>>
    /\ UNCHANGED notDialogVars

NextDialog ==
    \/ \E model_name \in MODELS, response \in BOOLEAN : DownloadModel(model_name, response)
    \/ \E response \in BOOLEAN : CancelDownload(response)
    \/ \E response \in BOOLEAN : Close(response)
    \/ \E t \in 1..MaxDownloads : ThreadDownloads(t)
    \/ \E t \in 1..MaxDownloads, loaded \in BOOLEAN : ThreadFinishes(t, loaded)
    \/ MainLoopRunsDialogCallback
    \/ \E selected \in MODELS, reloads \in BOOLEAN : OnModelSelected(selected, reloads)

\* The dialog under every interleaving of the user, the download threads and
\* the main loop.
SpecDialog == InitDialog /\ [][NextDialog]_vars

\* A download thread takes its next step: whisper.load_model writes the file,
\* returns or raises.
DownloadThreadStep(t) ==
    ThreadDownloads(t) \/ \E loaded \in BOOLEAN : ThreadFinishes(t, loaded)

\* Every started download thread runs on and the main loop keeps running the
\* callbacks scheduled with dialog.after; the user is free to do nothing.
SpecDialogLive ==
    /\ InitDialog /\ [][NextDialog]_vars
    /\ \A t \in 1..MaxDownloads : WF_vars(DownloadThreadStep(t))
    /\ WF_vars(MainLoopRunsDialogCallback)

\* ------------------------------------------------------------------ C24
\* The download threads still inside download_thread.
RunningDownloads == {t \in 1..Len(download_threads) : download_threads[t].pc = "running"}

\* C24: in the Whisper model dialog at most one download thread is in flight
\* at any time, over any sequence of download, cancel and close actions.
C24_OneDownloadThread == Cardinality(RunningDownloads) <= 1

\* ------------------------------------------------------------------ C27
\* No callback of thread t is waiting in the main loop's queue.
NothingPending(t) == \A k \in 1..Len(dialog_after) : dialog_after[k].thread # t

\* No download of the same model was started after thread t.
NotDownloadedAgain(t) ==
    \A u \in (t + 1)..Len(download_threads) :
        download_threads[u].model # download_threads[t].model

\* C27: a download the user cancelled is never reported as 'Download
\* Complete', and once its thread has finished and its callback has run none
\* of the model's files is in the cache, also when another download was
\* started before the cancelled thread finished.
C27_CancelledDownloadLeavesNothing ==
    \A t \in 1..Len(download_threads) :
        download_threads[t].cancelled =>
            /\ ~download_threads[t].reported
            /\ (/\ download_threads[t].pc = "finished"
                /\ NothingPending(t)
                /\ NotDownloadedAgain(t))
               => download_threads[t].model \notin cache

\* ------------------------------------------------------------------ C28
\* The step just taken ended a download: it showed the box of a success, of
\* a failure or of a cancellation.
DownloadEnded == shown.box \in {"Download Complete", "Download Failed", "Download Cancelled"}

Closable ==
    /\ ~downloading
    /\ dialog_widgets.progress_section = "hidden"
    /\ dialog_widgets.close_button = "normal"

\* C28: whenever a download ends (success, failure or cancellation) the
\* dialog becomes closable again: downloading is false, the progress section
\* is hidden and the Close button is enabled.
C28_ClosableAfterDownloadEnds == DownloadEnded ~> Closable

\* ------------------------------------------------------------------ C29
\* C29: a rejected model selection (the model is not downloaded, or the
\* backend fails to reload it) reverts the radio selection and leaves
\* current_model, the persisted setting and config.DEFAULT_WHISPER_MODEL equal
\* to the previously current model.
C29_RejectedSelectionChangesNothing ==
    [][ shown'.box \in {"Model Not Downloaded", "Error"} =>
            /\ selected_model' = current_model
            /\ current_model' = current_model
            /\ whisper_model' = current_model
            /\ DEFAULT_WHISPER_MODEL' = current_model ]_vars

\* ------------------------------------------------------------------ C30
\* The backend classes derived from TranscriptionBackend: OpenAIBackend, which
\* overrides transcribe_chunks, and a subclass that inherits the default.
DerivedBackends == {"OpenAIBackend", "BaseDefault"}

====
